---- MODULE Spec2Model ----
(***************************************************************************)
(* Model of the ingestion pipeline of backendAviator: the round            *)
(* persistence coordinator (WebSocketService.saveRoundData and             *)
(* GameRound.addRound), the round and signal stores, and the signal        *)
(* engine (PatternDetectionService).                                       *)
(*                                                                         *)
(* Every async function is cut at its awaits.  An awaited store call is    *)
(* two steps: the query runs at the store (a Db... action, atomic at the   *)
(* store) and later the caller resumes (an action named after the function *)
(* that resumes, atomic in the single JavaScript thread).  Queries of      *)
(* different calls run on a connection pool, so both orders are free.      *)
(*                                                                         *)
(* Multipliers are integers in thousandths (1.50x is 1500).  Time is in    *)
(* seconds.                                                                *)
(***************************************************************************)
EXTENDS Integers, Sequences, FiniteSets, TLC

\* ------------------------------------------------------------------ bounds

\* in-flight and finished calls of saveRoundData a run may start
MaxCalls == 4
\* the clock stops advancing here
MaxTime == 35
\* store operations that may fail in a run
MaxFaults == 1
\* stands for the 1000 entries processedResults may hold before it is cut
ProcessedCap == 2
\* stands for the 500 newest entries kept when processedResults is cut
ProcessedKeep == 1
\* the calls of saveRoundData a run holds in flight at once, where it is limited
MaxInFlight == 2
\* the calls of saveRoundData in a run of SpecDedup
DedupCalls == 3
\* the calls of saveRoundData in a run of Spec and of SpecFault
SignalCalls == 3
\* the rounds the store may hold when a run of SpecDetect starts
MaxEarlier == 3
\* the calls of saveRoundData in a run of SpecDetect
DetectCalls == 1
\* the sockets a run may create
MaxSockets == 5
\* the sockets a run of SpecNet may create
NetSockets == 3
\* the sockets a run of SpecRound may create
RoundSockets == 2
\* the clock of a run of SpecRound stops advancing here
RoundHorizon == 10
\* the clock of a run of SpecReset stops advancing here
ResetHorizon == 10
\* the sockets a run of SpecShake may create
ShakeSockets == 2
\* the clock of a run of SpecShake stops advancing here
ShakeHorizon == 25
\* the clock of a run of SpecHealth stops advancing here
HealthHorizon == 320

\* ------------------------------------------------------- program constants

WinThreshold == 1500
PatternUpper == 2000
MultiplierTolerance == 10
MergeWindow == 30
SimilarWindow == 300
ResetDelayX == 4
ResetDelayState == 3
SaveDelayState == 2
LastResultsLimit == 5
maxRetries == 3
retryDelay == 5
PingEvery == 10
ResetPause == 1
alertThreshold == 120
downThreshold == 300
DownChecks == 3

Bookmakers == {1, 2}

NoId == <<>>

isTemporaryId(rid) == rid # NoId /\ rid[1] \in {"temp", "round"}

Abs(x) == IF x < 0 THEN -x ELSE x

\* Math.round(v * 100) / 100 on thousandths
Round2(v) == ((v + 5) \div 10) * 10

\* ------------------------------------------------------------- round store

\* the columns of game_rounds that addRound writes from the round's counts
NoCounts ==
    [bets_count |-> 0, total_bet_amount |-> 0, online_players |-> 0,
     total_cashout |-> 0, casino_profit |-> 0, loss_percentage |-> 0]

\* a row of game_rounds (mult: max_multiplier, ts: timestamp)
RowWith(bm, rid, mult, ts, n) ==
    [bm |-> bm, rid |-> rid, mult |-> mult, ts |-> ts,
     bets_count |-> n.bets_count, total_bet_amount |-> n.total_bet_amount,
     online_players |-> n.online_players, total_cashout |-> n.total_cashout,
     casino_profit |-> n.casino_profit, loss_percentage |-> n.loss_percentage]

NewRow(bm, rid, mult, ts) == RowWith(bm, rid, mult, ts, NoCounts)

\* SELECT * FROM game_rounds WHERE bookmaker_id = $1 AND round_id = $2 LIMIT 1
findByRoundId(tbl, bm, rid) ==
    LET hit == SelectSeq(tbl, LAMBDA r : r.bm = bm /\ r.rid = rid)
    IN  IF hit = <<>> THEN <<>> ELSE <<hit[1]>>

\* The table is kept in insertion order, and a row's timestamp is the time of
\* its INSERT, so the sequence is sorted by timestamp and its last element is
\* the newest row (ORDER BY timestamp DESC LIMIT 1).
Newest(rows) == rows[Len(rows)]

\* findSimilarRound(bookmaker_id, max_multiplier) without a timestamp
findSimilarRound(tbl, bm, mult, t) ==
    LET hit == SelectSeq(tbl, LAMBDA r : /\ r.bm = bm
                                         /\ Abs(r.mult - mult) < MultiplierTolerance
                                         /\ r.ts > t - SimilarWindow)
    IN  IF hit = <<>> THEN <<>> ELSE <<Newest(hit)>>

\* UPDATE game_rounds SET round_id = $1 WHERE bookmaker_id = $2 AND round_id = $3
\* under UNIQUE (bookmaker_id, round_id): [ok, tbl]
UpdateRoundIdRow(tbl, bm, old, new) ==
    LET touched == \E i \in 1..Len(tbl) : tbl[i].bm = bm /\ tbl[i].rid = old
        clash   == \E i \in 1..Len(tbl) : tbl[i].bm = bm /\ tbl[i].rid = new
    IN  IF touched /\ clash /\ old # new
        THEN [ok |-> FALSE, tbl |-> tbl]
        ELSE [ok |-> TRUE,
              tbl |-> [i \in 1..Len(tbl) |->
                         IF tbl[i].bm = bm /\ tbl[i].rid = old
                         THEN [tbl[i] EXCEPT !.rid = new] ELSE tbl[i]]]

\* DELETE FROM game_rounds WHERE bookmaker_id = $1 AND round_id = $2
deleteByRoundId(tbl, bm, rid) ==
    SelectSeq(tbl, LAMBDA r : ~(r.bm = bm /\ r.rid = rid))

\* an INSERT that ignores the rows the table holds
InsertRoundNoConflict(tbl, bm, rid, mult, t, n) == Append(tbl, RowWith(bm, rid, mult, t, n))

\* INSERT ... ON CONFLICT (bookmaker_id, round_id) DO UPDATE SET ... RETURNING *
InsertRound(tbl, bm, rid, mult, t, n) ==
    IF \E i \in 1..Len(tbl) : tbl[i].bm = bm /\ tbl[i].rid = rid
    THEN [i \in 1..Len(tbl) |->
            IF tbl[i].bm = bm /\ tbl[i].rid = rid
            THEN RowWith(bm, rid, mult, tbl[i].ts, n) ELSE tbl[i]]
    ELSE Append(tbl, RowWith(bm, rid, mult, t, n))

\* the stand-in for 999999999999999999.99, which is beyond TLC's integers
MAX_MULTIPLIER_VALUE == 2000000000

\* DECIMAL(p, 2) holds the values below 10^(p - 2) in absolute value. The
\* limit of DECIMAL(20,2) is 10^18, which is also the number the literal
\* 999999999999999999.99 denotes as a double; the limits of DECIMAL(15,2) and
\* DECIMAL(5,2) are scaled with it, the second in thousandths of a percent
Decimal20Limit == MAX_MULTIPLIER_VALUE
Decimal15Limit == 1000000000
Decimal5Limit == 1000000

\* the store takes the row: no column overflows (else error 22003)
InRange(mult, n) ==
    /\ Abs(mult) < Decimal20Limit
    /\ Abs(n.total_bet_amount) < Decimal15Limit
    /\ Abs(n.total_cashout) < Decimal15Limit
    /\ Abs(n.casino_profit) < Decimal15Limit
    /\ Abs(n.loss_percentage) < Decimal5Limit

Reverse(s) == [i \in 1..Len(s) |-> s[Len(s) + 1 - i]]

Take(s, n) == SubSeq(s, 1, IF Len(s) < n THEN Len(s) ELSE n)

\* the elements of s whose round id occurs in no earlier element
RECURSIVE FirstOfEachRoundId(_, _)
FirstOfEachRoundId(s, seen) ==
    IF s = <<>> THEN <<>>
    ELSE IF s[1].rid \in seen THEN FirstOfEachRoundId(Tail(s), seen)
    ELSE <<s[1]>> \o FirstOfEachRoundId(Tail(s), seen \cup {s[1].rid})

\* SELECT DISTINCT ON (round_id) ... ORDER BY round_id, timestamp DESC, then
\* sorted by timestamp DESC and cut to the limit
getLastResults(tbl, bm, limit) ==
    Take(FirstOfEachRoundId(Reverse(SelectSeq(tbl, LAMBDA r : r.bm = bm)), {}), limit)

\* ------------------------------------------------------------ signal store

\* the NULL of an attempt result not yet recorded
Null == -1

\* INSERT INTO signals (...) VALUES ($1, $2, CURRENT_TIMESTAMP, 'pending');
\* id is SERIAL: the row's position in the table.
createSignal(sigs, bm, pattern) ==
    Append(sigs, [id |-> Len(sigs) + 1, bm |-> bm, pattern |-> pattern,
                  status |-> "pending", first |-> Null, second |-> Null, gale |-> FALSE])

\* SELECT * FROM signals WHERE bookmaker_id = $1 AND status = 'pending'
\* ORDER BY signal_timestamp DESC
getPendingSignals(sigs, bm) ==
    Reverse(SelectSeq(sigs, LAMBDA g : g.bm = bm /\ g.status = "pending"))

\* the UPDATE of updateFirstAttempt
updateFirstAttempt(sigs, id, result) ==
    [i \in 1..Len(sigs) |->
        IF sigs[i].id = id
        THEN [sigs[i] EXCEPT !.first = result,
                             !.status = IF result > WinThreshold THEN "won" ELSE "pending"]
        ELSE sigs[i]]

\* the UPDATE of updateSecondAttempt
updateSecondAttempt(sigs, id, result) ==
    [i \in 1..Len(sigs) |->
        IF sigs[i].id = id
        THEN [sigs[i] EXCEPT !.second = result, !.gale = TRUE,
                             !.status = IF result > WinThreshold THEN "won" ELSE "lost"]
        ELSE sigs[i]]

\* INSERT INTO signal_results (...)
addSignalResult(res, id, attemptNumber, result, rid) ==
    Append(res, [sig |-> id, attempt |-> attemptNumber, mult |-> result,
                 win |-> result > WinThreshold, rid |-> rid])

\* ------------------------------------------------------ pattern detection

\* a detection that takes 1.50x for a win
detectPatternLoose(results) ==
    IF Len(results) < 3 THEN FALSE
    ELSE /\ results[1].mult >= WinThreshold
         /\ results[2].mult >= WinThreshold
         /\ results[3].mult < PatternUpper

\* detectPattern(results): results newest first
detectPattern(results) ==
    IF Len(results) < 3 THEN FALSE
    ELSE /\ results[1].mult > WinThreshold
         /\ results[2].mult > WinThreshold
         /\ results[3].mult < PatternUpper

\* ------------------------------------------------------------ the decoders

\* decoder-unified.js DECODER_TYPES (lines 17-21)
DECODER_TYPES == {"sfs", "msgpack", "auto"}

\* the longest frame looked at
MaxFrameLen == 6

\* the bytes frames are made of: 0x00 and 0x01 (both a Format A length byte,
\* the SFS types NULL and BOOL, and MessagePack fixints), 0x12 (SFS_OBJECT, a
\* fixint), 0x80 (the Format A header, an empty fixmap) and 0x92 (a header
\* with bit 7 set, a fixarray of two)
FrameBytes == {0, 1, 18, 128, 146}

Frames == UNION {[1..n -> FrameBytes] : n \in 0..MaxFrameLen}

\* what a decoder gives besides an envelope: null (undecodable), or an exception
Undecodable == <<"null">>
Raised == <<"throws">>

\* JavaScript's if (result): objects and arrays are truthy, null is not
IsEnvelope(r) == r # Undecodable /\ r # Raised

\* Buffer.readUInt16BE at 1-based position pos
readUInt16(data, pos) == data[pos] * 256 + data[pos + 1]

\* n copies of the items in unit, then rest
RECURSIVE Repeat(_, _, _)
Repeat(n, unit, rest) == IF n = 0 THEN rest ELSE unit \o Repeat(n - 1, unit, rest)

\* decoder.js decodeSfsObject, decodeSfsArray and decodeValue (lines 108-188)
\* as one reader over the items still to be read from pos on: TRUE when every
\* read stays inside the buffer and every value type is supported. A key is a
\* 16-bit length and that many bytes (readUtf8String slices and never throws);
\* a value is a type byte and its payload. Of the value types only those in
\* FrameBytes are told apart; any other byte is an unsupported type here.
RECURSIVE decodeSfs(_, _, _)
decodeSfs(data, pos, todo) ==
    IF todo = <<>> THEN TRUE
    ELSE LET rest == Tail(todo)
             item == Head(todo)
         IN  IF item = "key"
             THEN /\ pos + 1 <= Len(data)
                  /\ decodeSfs(data, pos + 2 + readUInt16(data, pos), rest)
             ELSE IF item = "object"
             THEN /\ pos + 1 <= Len(data)
                  /\ readUInt16(data, pos) <= Len(data)
                  /\ decodeSfs(data, pos + 2,
                               Repeat(readUInt16(data, pos), <<"key", "value">>, rest))
             ELSE IF item = "array"
             THEN /\ pos + 1 <= Len(data)
                  /\ readUInt16(data, pos) <= Len(data)
                  /\ decodeSfs(data, pos + 2,
                               Repeat(readUInt16(data, pos), <<"value">>, rest))
             ELSE /\ pos <= Len(data)
                  /\ IF data[pos] = 0 THEN decodeSfs(data, pos + 1, rest)
                     ELSE IF data[pos] = 1
                     THEN pos + 1 <= Len(data) /\ decodeSfs(data, pos + 2, rest)
                     ELSE IF data[pos] = 18
                     THEN decodeSfs(data, pos + 1, <<"object">> \o rest)
                     ELSE IF data[pos] = 17
                     THEN decodeSfs(data, pos + 1, <<"array">> \o rest)
                     ELSE FALSE

\* decoder.js decodeMessage (lines 190-227), Format A. The header and length
\* reads and the read of the root type are outside every try block: on a
\* buffer too short for them Buffer.readUInt8 / readUInt16BE throw. A zlib
\* body (0x78 0x9c) is inflated first; no complete zlib stream fits in a
\* frame of MaxFrameLen bytes, so inflateSync fails and null is returned.
sfsDecodeMessage(data) ==
    IF Len(data) < 1 THEN Raised
    ELSE IF data[1] < 128 THEN Undecodable
    ELSE IF Len(data) < 3 THEN Raised
    ELSE LET bodyData == SubSeq(data, 4, Len(data))
         IN  IF Len(bodyData) > 1 /\ bodyData[1] = 120 /\ bodyData[2] = 156
             THEN Undecodable
             ELSE IF Len(bodyData) < 1 THEN Raised
             ELSE IF bodyData[1] = 18
             THEN IF decodeSfs(bodyData, 2, <<"object">>)
                  THEN <<"sfs", "object", readUInt16(bodyData, 2)>>
                  ELSE Undecodable
             ELSE IF bodyData[1] = 17
             THEN IF decodeSfs(bodyData, 2, <<"array">>)
                  THEN <<"sfs", "array", readUInt16(bodyData, 2)>>
                  ELSE Undecodable
             ELSE Undecodable

\* decoder-msgpack.js isMessagePackMessage (lines 233-285)
isMessagePackMessage(data) ==
    /\ Len(data) >= 1
    /\ \/ data[1] >= 128 /\ data[1] <= 143
       \/ data[1] >= 144 /\ data[1] <= 159
       \/ data[1] >= 160 /\ data[1] <= 191
       \/ data[1] >= 192 /\ data[1] <= 223
       \/ data[1] >= 217 /\ data[1] <= 219
       \/ data[1] >= 220 /\ data[1] <= 223

\* msgpack.decode (decoder-msgpack.js line 36) reads the first value of the
\* buffer and ignores what follows: where the n values from pos on end, 0
\* when the buffer falls short of them. A byte below 0x80 is a fixint, 0x80 to
\* 0x8f a fixmap of that many pairs, 0x90 to 0x9f a fixarray.
RECURSIVE msgpackEnd(_, _, _)
msgpackEnd(data, pos, n) ==
    IF n = 0 THEN pos
    ELSE IF pos > Len(data) THEN 0
    ELSE LET b == data[pos]
             inner == IF b >= 128 /\ b <= 143 THEN 2 * (b - 128)
                      ELSE IF b >= 144 /\ b <= 159 THEN b - 144
                      ELSE 0
         IN  msgpackEnd(data, pos + 1, n - 1 + inner)

\* decoder-msgpack.js normalizeMessagePackStructure, normalizeArrayMessage and
\* normalizeDirectMessage (lines 89-224) on a map or an array of numbers, maps
\* and arrays: no key is "p" or "c" and no element is a string, so a map, and
\* an array of fewer than two, becomes an envelope of command unknown, and an
\* array of two or more is dropped
normalizeMessagePackStructure(b) ==
    IF b >= 128 /\ b <= 143 THEN <<"msgpack", "unknown", b - 128>>
    ELSE IF b >= 144 /\ b <= 159
    THEN IF b - 144 >= 2 THEN Undecodable ELSE <<"msgpack", "unknown", b - 144>>
    ELSE Undecodable

\* decoder-msgpack.js decodeMessagePackMessage (lines 22-81), Format B: the
\* whole body is inside one try block, so a failed msgpack.decode gives null
decodeMessagePackMessage(data) ==
    IF Len(data) = 0 THEN Undecodable
    ELSE IF ~isMessagePackMessage(data) THEN Undecodable
    ELSE IF msgpackEnd(data, 1, 1) = 0 THEN Undecodable
    ELSE normalizeMessagePackStructure(data[1])

\* detectDecoderType going by the first byte alone
detectDecoderTypeFirstByte(data) ==
    IF Len(data) < 1 THEN "sfs"
    ELSE IF isMessagePackMessage(data) THEN "msgpack"
    ELSE IF data[1] >= 128 THEN "sfs"
    ELSE "msgpack"

\* decoder-unified.js detectDecoderType (lines 29-74)
detectDecoderType(data) ==
    IF Len(data) < 1 THEN "sfs"
    ELSE IF isMessagePackMessage(data)
    THEN IF Len(data) >= 2 /\ data[1] = 128 /\ (data[2] = 0 \/ data[2] = 1)
         THEN "sfs"
         ELSE "msgpack"
    ELSE IF data[1] >= 128 THEN "sfs"
    ELSE "msgpack"

\* the other decoder, tried when the first one returned nothing
Fallback(first, second) ==
    IF first = Raised THEN Undecodable
    ELSE IF IsEnvelope(first) THEN first
    ELSE IF second = Raised THEN Undecodable
    ELSE second

\* decodeMessage's actualDecoderType (lines 91-96), "none" when the empty
\* buffer made it return before
actualDecoderType(data, decoderType) ==
    IF Len(data) = 0 THEN "none"
    ELSE IF decoderType = "auto" THEN detectDecoderType(data)
    ELSE decoderType

\* decoder-unified.js decodeMessage (lines 83-151): one try block around the
\* whole body, whose catch returns null
decodeMessage(data, decoderType) ==
    IF Len(data) = 0 THEN Undecodable
    ELSE IF actualDecoderType(data, decoderType) = "msgpack"
    THEN Fallback(decodeMessagePackMessage(data), sfsDecodeMessage(data))
    ELSE Fallback(sfsDecodeMessage(data), decodeMessagePackMessage(data))

\* a frame not yet handed to decodeMessage
Arrived(data, decoderType) ==
    [data |-> data, decoderType |-> decoderType, actualDecoderType |-> "none",
     decodedMessage |-> <<"none">>]

\* no frame has come in
NoFrame == Arrived(<<>>, "auto")

\* ------------------------------------------------------------------- state

VARIABLES
    now,               \* the clock, in seconds
    rounds,            \* table game_rounds, in insertion order
    signals,           \* table signals, in insertion order
    results,           \* table signal_results, in insertion order
    faults,            \* store failures the run may still suffer
    heap,              \* the RoundAggregate objects ever created
    roundData,         \* WebSocketService.roundData: bookmaker -> object (0: no entry)
    savedRounds,       \* WebSocketService.savedRounds
    timers,            \* pending setTimeout callbacks: resetRoundData (run "reset")
                       \* and the delayed save of changeState (run "save")
    processedResults,  \* PatternDetectionService.processedResults, oldest first
    pendingSignals,    \* PatternDetectionService.pendingSignals (0: no entry)
    calls,             \* the calls of saveRoundData: where each one stands
    delivered,         \* history: the keys processNewResult went on to process
    config,            \* table bookmakers: bookmaker -> [active, valid]
    sockets,           \* the WebSocket objects ever created, with their closures
    connections,       \* WebSocketService.connections: bookmaker -> entry
    pingIntervals,     \* WebSocketService.pingIntervals: bookmaker -> socket (0: no entry)
    reconnects,        \* pending setTimeout(connectToBookmaker) callbacks
    isResetting,       \* WebSocketService.isResetting
    tasks,             \* initializeConnections, the reconciliation pass, the health
                       \* check and resetConnections: where each one stands
    bookmakersHealth,  \* WebSocketService.bookmakersHealth
    inbound,           \* a frame handed to decodeMessage: the bytes, the decoder
                       \* type asked for, and what came back
    intervals          \* the setInterval timers of initializeConnections that are
                       \* active: how many of each kind

vars == <<now, rounds, signals, results, faults, heap, roundData, savedRounds,
          timers, processedResults, pendingSignals, calls, delivered,
          config, sockets, connections, pingIntervals, reconnects, isResetting,
          tasks, bookmakersHealth, inbound, intervals>>

\* the state of the connection manager
net == <<config, sockets, connections, pingIntervals, reconnects, isResetting,
         tasks, bookmakersHealth, inbound, intervals>>

store == <<rounds, signals, results>>
engine == <<processedResults, pendingSignals, delivered>>

Calls == 1..MaxCalls

NewAggregate ==
    [betsCount |-> 0, totalBetAmount |-> 0, onlinePlayers |-> 0, roundId |-> NoId,
     maxMultiplier |-> 0, currentMultiplier |-> 0, totalCashout |-> 0,
     cashoutRecords |-> {}, gameState |-> "Bet"]

IdleCall ==
    [pc |-> "idle", st |-> "none", bm |-> 0, via |-> "none", rd |-> 0, key |-> NoId,
     crashX |-> 0, rid |-> NoId, qa |-> <<>>, res |-> <<>>, err |-> FALSE,
     sim |-> <<>>, sig |-> 0, prRid |-> NoId, dix |-> 0, out |-> "none",
     vals |-> NoCounts, retried |-> FALSE]

\* a call that is over: what it was called for and how it ended are kept
\* (out: "skipped", "merged", "repeat", "processed", "failed")
DoneCall(cl, how, out) ==
    [IdleCall EXCEPT !.pc = how, !.bm = cl.bm, !.via = cl.via, !.key = cl.key,
                     !.crashX = cl.crashX, !.out = out]

\* the call slot the next call of saveRoundData takes
FreeCall == CHOOSE c \in Calls : calls[c].pc = "idle" /\ \A d \in 1..(c - 1) : calls[d].pc # "idle"

Ready(c, sites) ==
    calls[c].pc \in sites /\ calls[c].st = "ready" /\ ~calls[c].err

Failed(c, sites) ==
    calls[c].pc \in sites /\ calls[c].st = "ready" /\ calls[c].err

Waiting(c, sites) ==
    calls[c].pc \in sites /\ calls[c].st = "wait"

\* the call is suspended at the await of a store query
Issue(cl, site, args) ==
    [cl EXCEPT !.pc = site, !.st = "wait", !.qa = args, !.res = <<>>, !.err = FALSE]

\* what the handler that awaited saveRoundData does when it returns (how =
\* "done") or throws (how = "threw"): the x and changeState handlers schedule
\* resetRoundData after a normal return
TimersAfterOn(tm, c, cl, how) ==
    IF how = "done" /\ cl.via = "x"
    THEN tm \cup {[bm |-> cl.bm, due |-> now + ResetDelayX, id |-> c, run |-> "reset"]}
    ELSE IF how = "done" /\ cl.via = "state"
    THEN tm \cup {[bm |-> cl.bm, due |-> now + ResetDelayState, id |-> c, run |-> "reset"]}
    ELSE tm

TimersAfter(c, cl, how) == TimersAfterOn(timers, c, cl, how)

\* ---------------------------------------------- connection manager: state

\* connections.get(id) when the map has no entry for id
NoConnection == [ws |-> 0, status |-> "none", lastPing |-> Null]

\* connections.has(id) in the map conns
has(conns, bm) == conns[bm].status # "none"

\* new WebSocket(url) and the closure of connectToBookmaker around it:
\* retryCount, the interval of its heartbeat (nextPing: when it ticks next,
\* Null once cleared), the events the socket has yet to emit and the call of
\* saveRoundData its close handler awaits. by, during and handed are history:
\* what created the socket, whether isResetting was set then, and whether its
\* close handler has called saveRoundData.
NewSocket(bm, retryCount, t, by, during) ==
    [bm |-> bm, retryCount |-> retryCount, readyState |-> "CONNECTING",
     firstResponseReceived |-> FALSE, sent |-> <<>>, events |-> <<>>,
     nextPing |-> t + PingEvery, awaiting |-> 0,
     by |-> by, during |-> during, handed |-> FALSE]

\* a job that awaits getBookmakersWithConfigs: what it waits for (pc), the rows
\* the query returned (list) and a time it keeps (at)
IdleTask == [pc |-> "idle", list |-> {}, at |-> 0]

TaskNames == {"init", "recon", "health", "reset"}

\* bookmakersHealth.get(id) || {status: 'unknown', consecutiveFailures: 0, ...}
\* downs (history): the checks in a row, up to this one, that said down
UnknownHealth ==
    [status |-> "unknown", consecutiveFailures |-> 0, isConnected |-> FALSE, downs |-> 0]

\* the timers initializeConnections registers with setInterval: the clearing
\* of savedRounds (line 34), the reconciliation (line 73) and the health
\* check (line 113)
IntervalKinds == {"clear", "recon", "health"}

\* setInterval: one more active timer of kind k; nothing in the service
\* calls clearInterval on these
setInterval(iv, k) == [iv EXCEPT ![k] = @ + 1]

\* the constructor's maps, over a table of bookmakers that are active and valid
NetInit ==
    /\ config = [b \in Bookmakers |-> [active |-> TRUE, valid |-> TRUE]]
    /\ sockets = <<>>
    /\ connections = [b \in Bookmakers |-> NoConnection]
    /\ pingIntervals = [b \in Bookmakers |-> 0]
    /\ reconnects = {}
    /\ isResetting = FALSE
    /\ tasks = [k \in TaskNames |-> IdleTask]
    /\ bookmakersHealth = [b \in Bookmakers |-> UnknownHealth]
    /\ intervals = [k \in IntervalKinds |-> 0]

Init ==
    /\ NetInit
    /\ now = 0
    /\ rounds = <<>>
    /\ signals = <<>>
    /\ results = <<>>
    /\ faults = 0
    /\ heap = <<>>
    /\ roundData = [b \in Bookmakers |-> 0]
    /\ savedRounds = {}
    /\ timers = {}
    /\ processedResults = <<>>
    /\ pendingSignals = [b \in Bookmakers |-> 0]
    /\ calls = [c \in Calls |-> IdleCall]
    /\ delivered = <<>>
    /\ inbound = NoFrame

\* ------------------------------------------------------- clock and timers

Tick(d) ==
    /\ now + d <= MaxTime
    /\ now' = now + d
    /\ UNCHANGED <<net, store, faults, heap, roundData, savedRounds, timers, engine, calls>>

\* the clock over the minutes a health check looks back on
Elapse(d) ==
    /\ now + d <= HealthHorizon
    /\ now' = now + d
    /\ UNCHANGED <<net, store, faults, heap, roundData, savedRounds, timers, engine, calls>>

\* resetRoundData, run by a timer that is due
resetRoundData(t) ==
    /\ t \in timers
    /\ t.run = "reset"
    /\ now >= t.due
    /\ timers' = timers \ {t}
    /\ heap' = Append(heap, [NewAggregate EXCEPT
                                !.onlinePlayers = IF roundData[t.bm] # 0
                                                  THEN heap[roundData[t.bm]].onlinePlayers
                                                  ELSE 0])
    /\ roundData' = [roundData EXCEPT ![t.bm] = Len(heap) + 1]
    /\ UNCHANGED <<net, now, store, faults, savedRounds, engine, calls>>

\* --------------------------------------------- saveRoundData, up to line 722

Min(a, b) == IF a < b THEN a ELSE b

\* the two values of a JavaScript number that are no finite number. Infinity
\* is above every finite value; NaN is set apart by Truthy and isFinite and
\* fails every test v > 0
Infinity == 2147483647
NaN == -2147483647

\* the truth value JavaScript gives a number: 0 and NaN are falsy
Truthy(v) == v # 0 /\ v # NaN

\* a || b on numbers
OrElse(a, b) == IF Truthy(a) THEN a ELSE b

isFinite(v) == v # Infinity /\ v # NaN

\* saveRoundData from its entry to its first await: the validation of crashX,
\* the synthesized round id and the savedRounds check. go: the call went on
\* to findByRoundId; hp: the heap it leaves
SavePrefix(hp, bm, crashX) ==
    LET o   == roundData[bm]
        v0  == OrElse(crashX, OrElse(hp[o].maxMultiplier, 0))
        v1  == Min(v0, MAX_MULTIPLIER_VALUE)
        v   == Round2(v1)
        rid == IF hp[o].roundId = NoId THEN <<"temp", bm, now>> ELSE hp[o].roundId
    IN  IF o = 0 \/ v0 <= 0 \/ ~isFinite(v1)
        THEN [go |-> FALSE, hp |-> hp, key |-> NoId, crashX |-> 0]
        ELSE [go |-> <<bm, rid>> \notin savedRounds,
              hp |-> [hp EXCEPT ![o].roundId = rid], key |-> rid, crashX |-> v]

\* a handler or callback calls saveRoundData(bm, name, crashX) on the heap hp
\* it has made, with tm the timers it leaves pending
StartSaveOn(bm, via, crashX, hp, tm) ==
    LET c   == FreeCall
        p   == SavePrefix(hp, bm, crashX)
        cl0 == [IdleCall EXCEPT !.bm = bm, !.via = via, !.rd = roundData[bm],
                                !.key = p.key, !.crashX = p.crashX]
    IN  /\ \E d \in Calls : calls[d].pc = "idle"
        /\ heap' = p.hp
        /\ IF p.go
           THEN /\ calls' = [calls EXCEPT ![c] = Issue(cl0, "sv_find", <<bm, p.key>>)]
                /\ timers' = tm
           ELSE /\ calls' = [calls EXCEPT ![c] = DoneCall(cl0, "done", "skipped")]
                /\ timers' = TimersAfterOn(tm, c, cl0, "done")
        /\ UNCHANGED <<now, store, faults, roundData, savedRounds, engine>>

\* a message handler calls saveRoundData(bm, name, crashX)
StartSave(bm, via, crashX, hp) == StartSaveOn(bm, via, crashX, hp, timers)

\* a handler that only writes to the aggregate of its source
Aggregate(bm, agg) ==
    /\ roundData[bm] # 0
    /\ heap' = [heap EXCEPT ![roundData[bm]] = agg]
    /\ UNCHANGED <<net, now, store, faults, roundData, savedRounds, timers, engine, calls>>

Max(a, b) == IF a > b THEN a ELSE b

\* ws.on('message'), command updateCurrentBets {betsCount, totalBetAmount}
OnUpdateCurrentBets(bm, betsCount, totalBetAmount) ==
    /\ roundData[bm] # 0
    /\ Aggregate(bm, [heap[roundData[bm]] EXCEPT
                        !.betsCount = Max(@, OrElse(betsCount, 0)),
                        !.totalBetAmount = OrElse(totalBetAmount, 0),
                        !.gameState = "Bet"])

\* ws.on('message'), command onlinePlayers {onlinePlayers}
OnOnlinePlayers(bm, onlinePlayers) ==
    /\ roundData[bm] # 0
    /\ Aggregate(bm, [heap[roundData[bm]] EXCEPT !.onlinePlayers = OrElse(onlinePlayers, 0)])

\* ws.on('message'), command updateCurrentCashOuts with one cashout
\* {player_id, betId, multiplier, winAmount}
OnUpdateCurrentCashOuts(bm, cashoutKey, winAmount) ==
    /\ roundData[bm] # 0
    /\ Aggregate(bm, IF cashoutKey \in heap[roundData[bm]].cashoutRecords
                     THEN heap[roundData[bm]]
                     ELSE [heap[roundData[bm]] EXCEPT
                             !.totalCashout = @ + winAmount,
                             !.cashoutRecords = @ \cup {cashoutKey}])

\* ws.on('message'), command roundChartInfo {roundId, maxMultiplier}
OnRoundChartInfo(bm, rid, m) ==
    LET o == roundData[bm] IN
    /\ o # 0
    /\ rid # NoId
    /\ IF m > 0
       THEN StartSave(bm, "chart", m,
                [heap EXCEPT ![o].roundId = rid, ![o].maxMultiplier = m,
                             ![o].currentMultiplier = m])
       ELSE /\ heap' = [heap EXCEPT ![o].roundId = rid]
            /\ UNCHANGED <<now, store, faults, roundData, savedRounds, timers, engine, calls>>
    /\ UNCHANGED net

\* an x handler that lets a crashX below the highest live value leave
\* maxMultiplier as it is
OnCrashXKeepMax(bm, rid, m) ==
    LET o   == roundData[bm]
        id1 == IF heap[o].roundId = NoId /\ rid # NoId THEN rid ELSE heap[o].roundId
        id2 == IF id1 = NoId THEN <<"round", bm, now>> ELSE id1
        finalMultiplier == OrElse(m, 0)
    IN  /\ o # 0
        /\ StartSave(bm, "x", finalMultiplier,
                [heap EXCEPT ![o].roundId = id2,
                             ![o].maxMultiplier = IF @ > finalMultiplier THEN @
                                                  ELSE finalMultiplier,
                             ![o].currentMultiplier = finalMultiplier,
                             ![o].gameState = "End"])
        /\ UNCHANGED net

\* ws.on('message'), command x with crashX (rid = NoId: the message has no round id)
OnCrashX(bm, rid, m) ==
    LET o   == roundData[bm]
        id1 == IF heap[o].roundId = NoId /\ rid # NoId THEN rid ELSE heap[o].roundId
        id2 == IF id1 = NoId THEN <<"round", bm, now>> ELSE id1
        finalMultiplier == OrElse(m, 0)
    IN  /\ o # 0
        /\ StartSave(bm, "x", finalMultiplier,
                [heap EXCEPT ![o].roundId = id2, ![o].maxMultiplier = finalMultiplier,
                             ![o].currentMultiplier = finalMultiplier,
                             ![o].gameState = "End"])
        /\ UNCHANGED net

\* ws.on('message'), command x with a running multiplier x (lines 497-507)
OnX(bm, x) ==
    LET currentMulti == OrElse(x, 0) IN
    /\ roundData[bm] # 0
    /\ Aggregate(bm, [heap[roundData[bm]] EXCEPT
                        !.currentMultiplier = currentMulti,
                        !.maxMultiplier = Max(@, currentMulti),
                        !.gameState = "Run"])

\* ws.on('message'), command changeState with newStateId 1 (lines 356-375):
\* the round id of the message replaces the one the aggregate holds
OnChangeStateBet(bm, rid) ==
    /\ roundData[bm] # 0
    /\ Aggregate(bm, [heap[roundData[bm]] EXCEPT
                        !.gameState = "Bet",
                        !.roundId = IF rid # NoId THEN rid ELSE @,
                        !.currentMultiplier = 0])

\* ws.on('message'), command changeState with newStateId 2 (lines 376-388)
OnChangeStateRun(bm, rid) ==
    /\ roundData[bm] # 0
    /\ Aggregate(bm, [heap[roundData[bm]] EXCEPT
                        !.gameState = "Run",
                        !.roundId = IF @ = NoId /\ rid # NoId THEN rid ELSE @,
                        !.currentMultiplier = 0])

\* ws.on('message'), command changeState with newStateId 3 (lines 389-432):
\* with a multiplier in the aggregate the round is saved at once; without one
\* a save is scheduled for two seconds later
OnChangeStateEnd(bm, rid, m) ==
    LET o   == roundData[bm]
        id1 == IF heap[o].roundId = NoId /\ rid # NoId THEN rid ELSE heap[o].roundId
        stateMultiplier == OrElse(m, 0)
        mx  == IF stateMultiplier > 0 /\ stateMultiplier > heap[o].maxMultiplier
               THEN stateMultiplier ELSE heap[o].maxMultiplier
        cur == IF stateMultiplier > 0 /\ stateMultiplier > heap[o].maxMultiplier
               THEN stateMultiplier ELSE heap[o].currentMultiplier
        hp  == [heap EXCEPT ![o].gameState = "End", ![o].roundId = id1,
                            ![o].maxMultiplier = mx, ![o].currentMultiplier = cur]
    IN  /\ o # 0
        /\ IF mx > 0
           THEN StartSave(bm, "state", mx, hp)
           ELSE /\ heap' = hp
                /\ timers' = timers \cup {[bm |-> bm, due |-> now + SaveDelayState,
                                            id |-> 0, run |-> "save"]}
                /\ UNCHANGED <<now, store, faults, roundData, savedRounds, engine, calls>>
        /\ UNCHANGED net

\* the callback of the delayed save (lines 421-430), run by a timer that is due
delayedSave(t) ==
    LET currentData == roundData[t.bm] IN
    /\ t \in timers
    /\ t.run = "save"
    /\ now >= t.due
    /\ IF /\ currentData # 0
          /\ heap[currentData].maxMultiplier > 0
          /\ heap[currentData].roundId # NoId
          /\ <<t.bm, heap[currentData].roundId>> \notin savedRounds
       THEN StartSaveOn(t.bm, "delayed", heap[currentData].maxMultiplier, heap,
                        timers \ {t})
       ELSE /\ timers' = timers \ {t}
            /\ UNCHANGED <<now, store, faults, heap, roundData, savedRounds, engine, calls>>
    /\ UNCHANGED net

\* the call is over: the awaiting handler goes on
Finish(c, cl, how, out) ==
    /\ calls' = [calls EXCEPT ![c] = DoneCall(cl, how, out)]
    /\ timers' = TimersAfter(c, cl, how)

\* -------------------------------------------- connection manager: sockets

\* what the rest of the model leaves to the connection manager, and back
data == <<now, store, faults, savedRounds, timers, engine, calls, inbound, intervals>>

\* the maps and objects connectToBookmaker and the socket handlers work on
NetState ==
    [sockets |-> sockets, connections |-> connections, pingIntervals |-> pingIntervals,
     reconnects |-> reconnects, heap |-> heap, roundData |-> roundData,
     bookmakersHealth |-> bookmakersHealth]

SetNet(N) ==
    /\ sockets' = N.sockets
    /\ connections' = N.connections
    /\ pingIntervals' = N.pingIntervals
    /\ reconnects' = N.reconnects
    /\ heap' = N.heap
    /\ roundData' = N.roundData
    /\ bookmakersHealth' = N.bookmakersHealth

\* ws.close() of the ws library: a socket that is connecting aborts its
\* handshake and emits 'error' and 'close' in one turn ("abort"); an open
\* socket emits 'close' once the closing handshake is over; a socket that is
\* closing or closed is left as it is
closeSocket(socks, s) ==
    IF s = 0 THEN socks
    ELSE IF socks[s].readyState = "CONNECTING"
    THEN [socks EXCEPT ![s].readyState = "CLOSING", ![s].events = <<"abort">>]
    ELSE IF socks[s].readyState = "OPEN"
    THEN [socks EXCEPT ![s].readyState = "CLOSING", ![s].events = <<"close">>]
    ELSE socks

\* clearInterval(this.pingIntervals.get(id)): i is the socket whose interval
\* the map holds (0: undefined)
clearInterval(socks, i) == IF i = 0 THEN socks ELSE [socks EXCEPT ![i].nextPing = Null]

\* a send that puts the frame on the wire whatever the state of the socket
sendAnyState(sock, frame) == [sock EXCEPT !.sent = Append(@, frame)]

\* ws.send(frame): only an open socket puts the frame on the wire
send(sock, frame) ==
    IF sock.readyState = "OPEN" THEN [sock EXCEPT !.sent = Append(@, frame)] ELSE sock

\* a handleReconnect whose delay does not grow with the retry count
handleReconnectFlat(recs, bm, retryCount, valid, by, owed) ==
    IF retryCount >= maxRetries THEN recs
    ELSE recs \cup {[bm |-> bm, retryCount |-> retryCount + 1, valid |-> valid,
                     due |-> now + retryDelay, by |-> by, owed |-> owed]}

\* handleReconnect(bookmaker, io, retryCount). by: the socket and the handler
\* that called; owed (history): the source had a round with a known
\* multiplier that this socket's handlers had not handed to saveRoundData
handleReconnect(recs, bm, retryCount, valid, by, owed) ==
    IF retryCount >= maxRetries THEN recs
    ELSE recs \cup {[bm |-> bm, retryCount |-> retryCount + 1, valid |-> valid,
                     due |-> now + retryDelay * (retryCount + 1),
                     by |-> by, owed |-> owed]}

\* if (!this.isResetting) this.handleReconnect(bookmaker, io, retryCount)
reportFailure(recs, bm, retryCount, valid, by, owed) ==
    IF isResetting THEN recs ELSE handleReconnect(recs, bm, retryCount, valid, by, owed)

\* connectToBookmaker(bookmaker, io, retryCount) on the maps N; valid: what
\* isValidBookmaker says of the bookmaker object passed; by: the caller
connectToBookmaker(N, bm, retryCount, valid, by) ==
    IF ~valid
    THEN [N EXCEPT !.connections[bm] = [ws |-> 0, status |-> "DISCONNECTED", lastPing |-> Null],
                   !.reconnects = reportFailure(@, bm, retryCount, valid, <<0, "catch">>, FALSE)]
    ELSE LET e    == N.connections[bm]
             old  == IF has(N.connections, bm)
                     THEN clearInterval(closeSocket(N.sockets, e.ws), N.pingIntervals[bm])
                     ELSE N.sockets
             id   == Len(old) + 1
         IN  [N EXCEPT !.sockets = Append(old, NewSocket(bm, retryCount, now, by, isResetting)),
                       !.connections[bm] = [ws |-> id, status |-> "CONNECTING", lastPing |-> Null],
                       !.pingIntervals[bm] = id,
                       !.heap = Append(@, NewAggregate),
                       !.roundData[bm] = Len(N.heap) + 1]

\* the connection initializeConnections opens for one bookmaker of its list
initialConnection(bm) ==
    /\ ~has(connections, bm)
    /\ Len(sockets) < MaxSockets
    /\ SetNet(connectToBookmaker(NetState, bm, 0, TRUE, "init"))
    /\ UNCHANGED <<data, config, isResetting, tasks>>

\* the setTimeout callback of handleReconnect
Reconnect(t) ==
    /\ t \in reconnects
    /\ now >= t.due
    /\ Len(sockets) < MaxSockets
    /\ SetNet(connectToBookmaker([NetState EXCEPT !.reconnects = @ \ {t}],
                                 t.bm, t.retryCount, t.valid, "timer"))
    /\ UNCHANGED <<data, config, isResetting, tasks>>

\* ws.on('open')
OnOpen(s) ==
    LET k == sockets[s] IN
    /\ k.readyState = "CONNECTING"
    /\ k.events = <<>>
    /\ sockets' = [sockets EXCEPT ![s] = send([k EXCEPT !.readyState = "OPEN"], "first")]
    /\ connections' = [connections EXCEPT ![k.bm] =
                          [ws |-> s, status |-> "CONNECTED", lastPing |-> now]]
    /\ UNCHANGED <<data, heap, roundData, config, pingIntervals, reconnects, isResetting,
                   tasks, bookmakersHealth>>

\* ws.on('message') with a frame the decoder returns nothing for (lines 285-304)
OnUndecodable(s) ==
    /\ sockets[s].readyState \in {"OPEN", "CLOSING"}
    /\ UNCHANGED vars

\* ws.on('message') with a decoded frame (lines 305-321) whose command is x
\* with a running multiplier (lines 458-469 and 497-508)
OnRunX(s, rid, m) ==
    LET k  == sockets[s]
        k1 == IF k.firstResponseReceived THEN k
              ELSE [send(k, "second") EXCEPT !.firstResponseReceived = TRUE]
        o  == roundData[k.bm]
    IN  /\ k.readyState \in {"OPEN", "CLOSING"}
        /\ sockets' = [sockets EXCEPT ![s] = k1]
        /\ connections' = [connections EXCEPT ![k.bm] =
                              [ws |-> s, status |-> "CONNECTED", lastPing |-> now]]
        /\ heap' = IF o = 0 THEN heap
                   ELSE [heap EXCEPT
                           ![o].roundId = IF @ = NoId /\ rid # NoId THEN rid ELSE @,
                           ![o].currentMultiplier = m,
                           ![o].maxMultiplier = IF m > @ THEN m ELSE @,
                           ![o].gameState = "Run"]
        /\ UNCHANGED <<data, roundData, config, pingIntervals, reconnects, isResetting,
                       tasks, bookmakersHealth>>

\* the source has a round whose multiplier is known
InFlightRound(bm) == roundData[bm] # 0 /\ heap[roundData[bm]].maxMultiplier > 0

\* ws.on('error') of an open socket; the socket closes in a later turn
OnError(s) ==
    LET k == sockets[s] IN
    /\ k.readyState = "OPEN"
    /\ k.events = <<>>
    /\ sockets' = [sockets EXCEPT ![s].readyState = "CLOSING", ![s].events = <<"close">>]
    /\ connections' = [connections EXCEPT ![k.bm] =
                          [ws |-> s, status |-> "DISCONNECTED", lastPing |-> @.lastPing]]
    /\ reconnects' = reportFailure(reconnects, k.bm, k.retryCount, TRUE, <<s, "error">>,
                                   InFlightRound(k.bm) /\ ~k.handed)
    /\ UNCHANGED <<data, heap, roundData, config, pingIntervals, isResetting, tasks,
                   bookmakersHealth>>

\* the socket emits 'close': the peer closed an open socket, or the close the
\* socket owes is due (withError = FALSE); a connection attempt failed or was
\* aborted, and 'error' is emitted in the same turn before 'close'
\* (withError = TRUE). Both 'close' handlers run (lines 610-622, 644-648), the
\* first one up to its await of saveRoundData.
OnClose(s, withError) ==
    LET k     == sockets[s]
        bm    == k.bm
        o     == roundData[bm]
        recs1 == IF withError
                 THEN reportFailure(reconnects, bm, k.retryCount, TRUE, <<s, "error">>,
                                    InFlightRound(bm))
                 ELSE reconnects
        saves == o # 0 /\ heap[o].roundId # NoId /\ heap[o].maxMultiplier > 0
        socks == clearInterval(sockets, pingIntervals[bm])
    IN  /\ IF withError
           THEN \/ k.readyState = "CONNECTING" /\ k.events = <<>>
                \/ k.events = <<"abort">>
           ELSE \/ k.readyState = "OPEN" /\ k.events = <<>>
                \/ k.events = <<"close">>
        /\ connections' = [connections EXCEPT ![bm] =
                              [ws |-> s, status |-> "DISCONNECTED", lastPing |-> @.lastPing]]
        /\ pingIntervals' = [pingIntervals EXCEPT ![bm] = 0]
        /\ IF saves
           THEN /\ StartSave(bm, "close", heap[o].maxMultiplier, heap)
                /\ reconnects' = recs1
                /\ sockets' = [socks EXCEPT ![s].readyState = "CLOSED", ![s].events = <<>>,
                                            ![s].handed = TRUE, ![s].awaiting = FreeCall]
           ELSE /\ reconnects' = reportFailure(recs1, bm, k.retryCount, TRUE, <<s, "close">>,
                                               InFlightRound(bm))
                /\ sockets' = [socks EXCEPT ![s].readyState = "CLOSED", ![s].events = <<>>]
                /\ UNCHANGED <<data, heap, roundData>>
        /\ UNCHANGED <<config, isResetting, tasks, bookmakersHealth, inbound, intervals>>

\* the first 'close' handler ends at its await when saveRoundData rejects:
\* the lookups of lines 722-746 are outside the try block of saveRoundData,
\* and the handler has none
onClose_threw(s) ==
    LET k == sockets[s] IN
    /\ k.awaiting # 0
    /\ calls[k.awaiting].pc = "threw"
    /\ sockets' = [sockets EXCEPT ![s].awaiting = 0]
    /\ UNCHANGED <<data, heap, roundData, config, connections, pingIntervals, reconnects,
                   isResetting, tasks, bookmakersHealth>>

\* the first 'close' handler resumes after saveRoundData (lines 619-621)
onClose_saved(s) ==
    LET k == sockets[s] IN
    /\ k.awaiting # 0
    /\ calls[k.awaiting].pc = "done"
    /\ sockets' = [sockets EXCEPT ![s].awaiting = 0]
    /\ reconnects' = reportFailure(reconnects, k.bm, k.retryCount, TRUE, <<s, "close">>, FALSE)
    /\ UNCHANGED <<data, heap, roundData, config, connections, pingIntervals, isResetting,
                   tasks, bookmakersHealth>>

\* the setInterval callback of the heartbeat (lines 624-640)
pingInterval(s) ==
    LET k == sockets[s] IN
    /\ k.nextPing # Null
    /\ now >= k.nextPing
    /\ sockets' = [sockets EXCEPT ![s] = [send(k, "third") EXCEPT !.nextPing = now + PingEvery]]
    /\ reconnects' = IF k.readyState = "OPEN" THEN reconnects
                     ELSE reportFailure(reconnects, k.bm, k.retryCount, TRUE,
                                        <<s, "ping">>, FALSE)
    /\ UNCHANGED <<data, heap, roundData, config, connections, pingIntervals, isResetting,
                   tasks, bookmakersHealth>>

\* ------------------------------------------------ connection manager: jobs

\* an administrator edits a row of table bookmakers
Reconfigure(bm, active, valid) ==
    /\ config[bm] # [active |-> active, valid |-> valid]
    /\ config' = [config EXCEPT ![bm] = [active |-> active, valid |-> valid]]
    /\ UNCHANGED <<data, heap, roundData, sockets, connections, pingIntervals, reconnects,
                   isResetting, tasks, bookmakersHealth>>

\* SELECT ... FROM bookmakers WHERE active = true, with what isValidBookmaker
\* says of each row
getBookmakersWithConfigs(cfg) ==
    {[bm |-> b, valid |-> cfg[b].valid] : b \in {x \in Bookmakers : cfg[x].active}}

\* the query of job k runs at the store
DbGetBookmakers(k) ==
    /\ tasks[k].pc = "query"
    /\ tasks' = [tasks EXCEPT ![k].pc = "ready", ![k].list = getBookmakersWithConfigs(config)]
    /\ UNCHANGED <<data, heap, roundData, config, sockets, connections, pingIntervals,
                   reconnects, isResetting, bookmakersHealth>>

\* the loops below visit the rows of a list in the order of their ids
RowOf(list, b) == CHOOSE r \in list : r.bm = b

InList(list, b) == \E r \in list : r.bm = b

MaxId == CHOOSE b \in Bookmakers : \A x \in Bookmakers : x <= b

\* initializeConnections, lines 41-47, from bookmaker b on
RECURSIVE connectAll(_, _, _, _)
connectAll(N, list, b, by) ==
    IF b > MaxId THEN N
    ELSE connectAll(IF InList(list, b) /\ RowOf(list, b).valid
                    THEN connectToBookmaker(N, b, 0, TRUE, by) ELSE N,
                    list, b + 1, by)

\* server start: initializeConnections up to its await (lines 26-40)
initializeConnections ==
    /\ tasks["init"].pc = "idle"
    /\ intervals' = setInterval(intervals, "clear")
    /\ tasks' = [tasks EXCEPT !["init"].pc = "query"]
    /\ UNCHANGED <<now, store, faults, savedRounds, timers, engine, calls, inbound, heap, roundData, config, sockets, connections, pingIntervals,
                   reconnects, isResetting, bookmakersHealth>>

\* initializeConnections resumes with the bookmakers (lines 41-104) and
\* registers the reconciliation and the health check
initializeConnections_read ==
    /\ tasks["init"].pc = "ready"
    /\ Len(sockets) + Cardinality(Bookmakers) <= MaxSockets
    /\ SetNet(connectAll(NetState, tasks["init"].list, 1, "init"))
    /\ intervals' = setInterval(setInterval(intervals, "recon"), "health")
    /\ tasks' = [tasks EXCEPT !["init"] = [IdleTask EXCEPT !.pc = "done"]]
    /\ UNCHANGED <<now, store, faults, savedRounds, timers, engine, calls, inbound, config, isResetting>>

\* the reconciliation interval fires (lines 73-76)
reconcile ==
    /\ tasks["init"].pc = "done"
    /\ tasks["recon"].pc = "idle"
    /\ ~isResetting
    /\ tasks' = [tasks EXCEPT !["recon"].pc = "query"]
    /\ UNCHANGED <<data, heap, roundData, config, sockets, connections, pingIntervals,
                   reconnects, isResetting, bookmakersHealth>>

\* lines 86-94: the connection of a bookmaker whose configuration is invalid
\* is closed and its entries are deleted
dropBookmaker(N, b) ==
    [N EXCEPT !.sockets = clearInterval(closeSocket(@, N.connections[b].ws), N.pingIntervals[b]),
              !.connections[b] = NoConnection,
              !.pingIntervals[b] = 0,
              !.roundData[b] = 0]

\* updatedBookmakers.forEach (lines 77-96), from bookmaker b on
RECURSIVE reconcileAll(_, _, _)
reconcileAll(N, list, b) ==
    IF b > MaxId THEN N
    ELSE reconcileAll(
            IF ~InList(list, b) THEN N
            ELSE IF RowOf(list, b).valid /\ ~has(N.connections, b)
            THEN connectToBookmaker(N, b, 0, TRUE, "recon")
            ELSE IF ~RowOf(list, b).valid /\ has(N.connections, b)
            THEN dropBookmaker(N, b)
            ELSE N,
            list, b + 1)

\* the reconciliation resumes with the bookmakers
reconcile_read ==
    /\ tasks["recon"].pc = "ready"
    /\ Len(sockets) + Cardinality(Bookmakers) <= MaxSockets
    /\ SetNet(reconcileAll(NetState, tasks["recon"].list, 1))
    /\ tasks' = [tasks EXCEPT !["recon"] = IdleTask]
    /\ UNCHANGED <<data, config, isResetting>>

\* ------------------------------------------------------------ health check

\* what a check says of a connection entry (lines 135-160): t is the time
\* since the last activity
classify(conn, t) ==
    IF conn.status = "none" \/ conn.ws = 0 THEN "disconnected"
    ELSE IF conn.status = "CONNECTED"
    THEN IF t > downThreshold THEN "down"
         ELSE IF t > alertThreshold THEN "warning"
         ELSE "healthy"
    ELSE IF conn.status = "CONNECTING" THEN "connecting"
    ELSE "disconnected"

\* now - lastActivity (lines 140-141), for a check started at time at
timeSinceActivity(conn, at) == IF conn.lastPing = Null THEN 0 ELSE at - conn.lastPing

\* the checks in a row that said down, kept up to DownChecks
DownsAfter(h, st) ==
    IF st # "down" THEN 0 ELSE IF h.downs < DownChecks THEN h.downs + 1 ELSE DownChecks

\* a check that does not count a down as a failure
checkedNoCount(h, conn, at) ==
    LET st == classify(conn, timeSinceActivity(conn, at))
    IN  [status |-> st,
         consecutiveFailures |-> IF st = "healthy" THEN 0 ELSE h.consecutiveFailures,
         isConnected |-> conn.status = "CONNECTED" /\ conn.ws # 0,
         downs |-> DownsAfter(h, st)]

\* the health entry a check leaves (lines 126-166). consecutiveFailures is
\* kept up to DownChecks, the only value it is compared with
checked(h, conn, at) ==
    LET st == classify(conn, timeSinceActivity(conn, at))
        up == IF h.consecutiveFailures < DownChecks
              THEN h.consecutiveFailures + 1 ELSE DownChecks
    IN  [status |-> st,
         consecutiveFailures |->
             IF st = "healthy" THEN 0
             ELSE IF st \in {"down"} \/ conn.status = "none" \/ conn.ws = 0 THEN up
             ELSE h.consecutiveFailures,
         isConnected |-> conn.status = "CONNECTED" /\ conn.ws # 0,
         downs |-> DownsAfter(h, st)]

\* reconnectBookmaker(bookmaker)
reconnectBookmaker(N, b, valid) ==
    connectToBookmaker(
        [N EXCEPT !.sockets = clearInterval(closeSocket(@, N.connections[b].ws),
                                            N.pingIntervals[b]),
                  !.connections[b] = NoConnection,
                  !.pingIntervals[b] = 0],
        b, 0, valid, "health")

\* the loop of checkAllBookmakersHealth (lines 122-178), from bookmaker b on
RECURSIVE checkAll(_, _, _, _)
checkAll(N, list, b, at) ==
    IF b > MaxId THEN N
    ELSE IF ~InList(list, b) THEN checkAll(N, list, b + 1, at)
    ELSE LET h  == checked(N.bookmakersHealth[b], N.connections[b], at)
             N1 == [N EXCEPT !.bookmakersHealth[b] = h]
         IN  checkAll(IF h.status = "down" /\ h.consecutiveFailures >= DownChecks
                      THEN reconnectBookmaker(N1, b, RowOf(list, b).valid)
                      ELSE N1,
                      list, b + 1, at)

\* the health interval fires: checkAllBookmakersHealth up to its await
checkAllBookmakersHealth ==
    /\ tasks["init"].pc = "done"
    /\ tasks["health"].pc = "idle"
    /\ tasks' = [tasks EXCEPT !["health"].pc = "query", !["health"].at = now]
    /\ UNCHANGED <<data, heap, roundData, config, sockets, connections, pingIntervals,
                   reconnects, isResetting, bookmakersHealth>>

\* checkAllBookmakersHealth resumes with the bookmakers
checkAllBookmakersHealth_read ==
    /\ tasks["health"].pc = "ready"
    /\ Len(sockets) + Cardinality(Bookmakers) <= MaxSockets
    /\ SetNet(checkAll(NetState, tasks["health"].list, 1, tasks["health"].at))
    /\ tasks' = [tasks EXCEPT !["health"] = IdleTask]
    /\ UNCHANGED <<data, config, isResetting>>

\* ---------------------------------------------------------- resetConnections

\* lines 1003-1010 for bookmaker b and those after it
RECURSIVE closeAll(_, _, _, _)
closeAll(socks, conns, pings, b) ==
    IF b > MaxId THEN socks
    ELSE closeAll(IF has(conns, b)
                  THEN clearInterval(closeSocket(socks, conns[b].ws), pings[b])
                  ELSE socks,
                  conns, pings, b + 1)

\* resetConnections up to its pause (lines 997-1015)
resetConnections ==
    /\ tasks["reset"].pc = "idle"
    /\ tasks["init"].pc = "done"
    /\ isResetting' = TRUE
    /\ sockets' = closeAll(sockets, connections, pingIntervals, 1)
    /\ pingIntervals' = [b \in Bookmakers |->
                            IF has(connections, b) THEN 0 ELSE pingIntervals[b]]
    /\ connections' = [b \in Bookmakers |-> NoConnection]
    /\ roundData' = [b \in Bookmakers |-> 0]
    /\ tasks' = [tasks EXCEPT !["reset"].pc = "sleep", !["reset"].at = now + ResetPause]
    /\ UNCHANGED <<data, heap, config, reconnects, bookmakersHealth>>

\* the pause is over: initializeConnections up to its await
resetConnections_slept ==
    /\ tasks["reset"].pc = "sleep"
    /\ now >= tasks["reset"].at
    /\ intervals' = setInterval(intervals, "clear")
    /\ tasks' = [tasks EXCEPT !["reset"].pc = "query"]
    /\ UNCHANGED <<now, store, faults, savedRounds, timers, engine, calls, inbound, heap, roundData, config, sockets, connections, pingIntervals,
                   reconnects, isResetting, bookmakersHealth>>

\* initializeConnections resumes with the bookmakers and returns, and
\* resetConnections clears the flag (lines 1018-1020)
resetConnections_read ==
    /\ tasks["reset"].pc = "ready"
    /\ Len(sockets) + Cardinality(Bookmakers) <= MaxSockets
    /\ SetNet(connectAll(NetState, tasks["reset"].list, 1, "reset"))
    /\ intervals' = setInterval(setInterval(intervals, "recon"), "health")
    /\ isResetting' = FALSE
    /\ tasks' = [tasks EXCEPT !["reset"] = IdleTask]
    /\ UNCHANGED <<now, store, faults, savedRounds, timers, engine, calls, inbound, config>>

\* ---------------------------------------------------------- store queries

DbFindByRoundId(c) ==
    /\ Waiting(c, {"sv_find", "ur_find", "ar_find"})
    /\ calls' = [calls EXCEPT ![c].st = "ready",
                              ![c].res = findByRoundId(rounds, calls[c].qa[1], calls[c].qa[2])]
    /\ UNCHANGED <<net, now, store, faults, heap, roundData, savedRounds, timers, engine>>

DbFindSimilarRound(c) ==
    /\ Waiting(c, {"sv_similar", "ar_similar"})
    /\ calls' = [calls EXCEPT ![c].st = "ready",
                              ![c].res = findSimilarRound(rounds, calls[c].qa[1], calls[c].qa[2], now)]
    /\ UNCHANGED <<net, now, store, faults, heap, roundData, savedRounds, timers, engine>>

\* the UPDATE of updateRoundId; a clash with the unique constraint is an error
DbUpdateRoundId(c) ==
    LET r == UpdateRoundIdRow(rounds, calls[c].qa[1], calls[c].qa[2], calls[c].qa[3]) IN
    /\ Waiting(c, {"ur_update"})
    /\ rounds' = r.tbl
    /\ calls' = [calls EXCEPT ![c].st = "ready", ![c].err = ~r.ok]
    /\ UNCHANGED <<net, now, signals, results, faults, heap, roundData, savedRounds, timers, engine>>

DbDeleteByRoundId(c) ==
    /\ Waiting(c, {"ur_delete"})
    /\ rounds' = deleteByRoundId(rounds, calls[c].qa[1], calls[c].qa[2])
    /\ calls' = [calls EXCEPT ![c].st = "ready"]
    /\ UNCHANGED <<net, now, signals, results, faults, heap, roundData, savedRounds, timers, engine>>

DbInsertRound(c) ==
    LET q == calls[c].qa IN
    /\ Waiting(c, {"ar_insert"})
    /\ IF InRange(q[3], q[4])
       THEN /\ rounds' = InsertRound(rounds, q[1], q[2], q[3], now, q[4])
            /\ calls' = [calls EXCEPT ![c].st = "ready",
                                      ![c].res = findByRoundId(rounds', q[1], q[2])]
       ELSE /\ rounds' = rounds
            /\ calls' = [calls EXCEPT ![c].st = "ready", ![c].err = TRUE,
                                      ![c].res = <<"22003">>]
    /\ UNCHANGED <<net, now, signals, results, faults, heap, roundData, savedRounds, timers, engine>>

DbGetPendingSignals(c) ==
    /\ Waiting(c, {"vs_pending"})
    /\ calls' = [calls EXCEPT ![c].st = "ready",
                              ![c].res = getPendingSignals(signals, calls[c].qa[1])]
    /\ UNCHANGED <<net, now, store, faults, heap, roundData, savedRounds, timers, engine>>

DbUpdateFirstAttempt(c) ==
    /\ Waiting(c, {"uf_update"})
    /\ signals' = updateFirstAttempt(signals, calls[c].qa[1], calls[c].qa[2])
    /\ calls' = [calls EXCEPT ![c].st = "ready"]
    /\ UNCHANGED <<net, now, rounds, results, faults, heap, roundData, savedRounds, timers, engine>>

DbUpdateSecondAttempt(c) ==
    /\ Waiting(c, {"us_update"})
    /\ signals' = updateSecondAttempt(signals, calls[c].qa[1], calls[c].qa[2])
    /\ calls' = [calls EXCEPT ![c].st = "ready"]
    /\ UNCHANGED <<net, now, rounds, results, faults, heap, roundData, savedRounds, timers, engine>>

DbAddSignalResult(c) ==
    LET q == calls[c].qa IN
    /\ Waiting(c, {"uf_result", "us_result"})
    /\ results' = addSignalResult(results, q[1], q[2], q[3], q[4])
    /\ calls' = [calls EXCEPT ![c].st = "ready"]
    /\ UNCHANGED <<net, now, rounds, signals, faults, heap, roundData, savedRounds, timers, engine>>

DbGetLastResults(c) ==
    /\ Waiting(c, {"pr_last"})
    /\ calls' = [calls EXCEPT ![c].st = "ready",
                              ![c].res = getLastResults(rounds, calls[c].qa[1], calls[c].qa[2])]
    /\ UNCHANGED <<net, now, store, faults, heap, roundData, savedRounds, timers, engine>>

DbCreateSignal(c) ==
    /\ Waiting(c, {"es_create"})
    /\ signals' = createSignal(signals, calls[c].qa[1], calls[c].qa[2])
    /\ calls' = [calls EXCEPT ![c].st = "ready", ![c].res = <<signals'[Len(signals')]>>]
    /\ UNCHANGED <<net, now, rounds, results, faults, heap, roundData, savedRounds, timers, engine>>

\* a query fails at the store (lost connection, timeout): nothing is written
DbFail(c) ==
    /\ faults > 0
    /\ calls[c].st = "wait"
    /\ faults' = faults - 1
    /\ calls' = [calls EXCEPT ![c].st = "ready", ![c].err = TRUE]
    /\ UNCHANGED <<net, now, store, heap, roundData, savedRounds, timers, engine>>

\* ------------------------------------------ saveRoundData, lines 722 to 795

\* safeDecimalValue(value, 2, maxValue) on thousandths
safeDecimalValue(value, maxValue) ==
    IF ~isFinite(value) THEN 0 ELSE Round2(Min(value, maxValue))

\* (casinoProfit / totalBetAmount) * 100 in thousandths of a percent, for a
\* totalBetAmount of whole tenths of a unit; the quotient is taken to a tenth
\* of a percent
Percent(profit, bet) == (profit \div (bet \div 1000)) * 100

\* lines 761-764 and 778-783: the values addRound is handed for the counts
SafeValues(agg) ==
    LET totalBetAmount == OrElse(agg.totalBetAmount, 0)
        totalCashout   == OrElse(agg.totalCashout, 0)
        casinoProfit   == totalBetAmount - totalCashout
        lossPercentage == IF totalBetAmount > 0
                          THEN Percent(casinoProfit, totalBetAmount) ELSE 0
    IN  [bets_count       |-> OrElse(agg.betsCount, 0),
         total_bet_amount |-> safeDecimalValue(totalBetAmount, MAX_MULTIPLIER_VALUE),
         online_players   |-> OrElse(agg.onlinePlayers, 0),
         total_cashout    |-> safeDecimalValue(totalCashout, MAX_MULTIPLIER_VALUE),
         casino_profit    |-> safeDecimalValue(casinoProfit, MAX_MULTIPLIER_VALUE),
         loss_percentage  |-> safeDecimalValue(lossPercentage, MAX_MULTIPLIER_VALUE)]

\* the values of the INSERT of addRound
InsertArgs(cl) ==
    <<cl.bm, cl.rid, safeDecimalValue(cl.crashX, MAX_MULTIPLIER_VALUE), cl.vals>>

\* lines 754-795 and addRound up to its first await: maxMultiplier is raised
\* and addRound(bm, String(roundData.roundId), ..) asks findByRoundId
AddRoundEntry(c) ==
    LET cl  == calls[c]
        agg == heap[cl.rd]
    IN  /\ heap' = IF cl.crashX > agg.maxMultiplier
                   THEN [heap EXCEPT ![cl.rd].maxMultiplier = cl.crashX] ELSE heap
        /\ calls' = [calls EXCEPT ![c] =
                        Issue([cl EXCEPT !.rid = agg.roundId, !.vals = SafeValues(agg)],
                              "ar_find", <<cl.bm, agg.roundId>>)]
        /\ UNCHANGED <<net, savedRounds, timers>>

\* a saveRoundData that goes on to addRound whatever findByRoundId returned
saveRoundData_foundOnward(c) ==
    LET cl == calls[c] IN
    /\ Ready(c, {"sv_find"})
    /\ IF isTemporaryId(heap[cl.rd].roundId)
       THEN /\ calls' = [calls EXCEPT ![c] = Issue(cl, "sv_similar", <<cl.bm, cl.crashX>>)]
            /\ UNCHANGED <<net, heap, savedRounds, timers>>
       ELSE AddRoundEntry(c)
    /\ UNCHANGED <<net, now, store, faults, roundData, engine>>

\* saveRoundData resumes after findByRoundId (lines 723-734)
saveRoundData_found(c) ==
    LET cl == calls[c] IN
    /\ Ready(c, {"sv_find"})
    /\ IF cl.res # <<>>
       THEN /\ savedRounds' = savedRounds \cup {<<cl.bm, cl.key>>}
            /\ Finish(c, cl, "done", "skipped")
            /\ heap' = heap
       ELSE IF isTemporaryId(heap[cl.rd].roundId)
       THEN /\ calls' = [calls EXCEPT ![c] = Issue(cl, "sv_similar", <<cl.bm, cl.crashX>>)]
            /\ UNCHANGED <<net, heap, savedRounds, timers>>
       ELSE AddRoundEntry(c)
    /\ UNCHANGED <<net, now, store, faults, roundData, engine>>

\* a temporary row younger than 30 s (lines 128-134 and 737-744)
RecentTemporary(sim) ==
    /\ sim # <<>>
    /\ isTemporaryId(sim[1].rid)
    /\ Abs(now - sim[1].ts) < MergeWindow

\* saveRoundData resumes after findSimilarRound (lines 735-752); on a merge
\* updateRoundId(old, new) asks findByRoundId for the new id
saveRoundData_similar(c) ==
    LET cl == calls[c] IN
    /\ Ready(c, {"sv_similar"})
    /\ IF RecentTemporary(cl.res)
       THEN /\ calls' = [calls EXCEPT ![c] =
                          Issue([cl EXCEPT !.sim = cl.res, !.rid = heap[cl.rd].roundId],
                                "ur_find", <<cl.bm, heap[cl.rd].roundId>>)]
            /\ UNCHANGED <<net, heap, savedRounds, timers>>
       ELSE AddRoundEntry(c)
    /\ UNCHANGED <<net, now, store, faults, roundData, engine>>

\* updateRoundId resumes after findByRoundId (lines 69-82)
updateRoundId_found(c) ==
    LET cl == calls[c] IN
    /\ Ready(c, {"ur_find"})
    /\ calls' = [calls EXCEPT ![c] =
                    IF cl.res # <<>>
                    THEN Issue(cl, "ur_delete", <<cl.bm, cl.sim[1].rid>>)
                    ELSE Issue(cl, "ur_update", <<cl.bm, cl.sim[1].rid, cl.rid>>)]
    /\ UNCHANGED <<net, now, store, faults, heap, roundData, savedRounds, timers, engine>>

\* updateRoundId returns and saveRoundData ends (lines 747-748)
saveRoundData_merged(c) ==
    LET cl == calls[c] IN
    /\ Ready(c, {"ur_delete", "ur_update"})
    /\ savedRounds' = savedRounds \cup {<<cl.bm, cl.key>>}
    /\ Finish(c, cl, "done", "merged")
    /\ UNCHANGED <<net, now, store, faults, heap, roundData, engine>>

\* a query of lines 722-746 failed: the error leaves saveRoundData, which
\* holds these awaits outside its try block
saveRoundData_throw(c) ==
    /\ Failed(c, {"sv_find", "sv_similar", "ur_find", "ur_delete", "ur_update"})
    /\ Finish(c, calls[c], "threw", "failed")
    /\ UNCHANGED <<net, now, store, faults, heap, roundData, savedRounds, engine>>

\* -------------------------------------- processNewResult, up to its await

\* a guard that forgets every key at once
AddProcessedNone(seq, key) == <<>>

\* processedResults.add(key) and the cut to the newest entries (lines 79-85)
AddProcessed(seq, key) ==
    LET added == Append(seq, key) IN
    IF Len(added) > ProcessedCap
    THEN SubSeq(added, Len(added) - ProcessedKeep + 1, Len(added))
    ELSE added

InSeq(x, seq) == \E i \in 1..Len(seq) : seq[i] = x

\* processNewResult asks for the last results (line 97)
AskLastResults(cl) == Issue(cl, "pr_last", <<cl.bm, LastResultsLimit>>)

\* lines 797-897 of saveRoundData once addRound has returned the row saved,
\* and processNewResult(bm, saved.round_id, validCrashX) up to its first await
PostSave(c, saved) ==
    LET cl    == calls[c]
        agg   == heap[cl.rd]
        moved == saved.rid # agg.roundId
        key   == <<cl.bm, saved.rid, cl.crashX>>
        cl1   == [cl EXCEPT !.prRid = saved.rid, !.dix = Len(delivered) + 1]
    IN  /\ heap' = IF moved THEN [heap EXCEPT ![cl.rd].roundId = saved.rid] ELSE heap
        /\ savedRounds' =
              (IF moved THEN (savedRounds \ {<<cl.bm, cl.key>>}) \cup {<<cl.bm, saved.rid>>}
               ELSE savedRounds) \cup {<<cl.bm, cl.key>>}
        /\ IF InSeq(key, processedResults)
           THEN /\ Finish(c, cl, "done", "repeat")
                /\ UNCHANGED engine
           ELSE /\ processedResults' = AddProcessed(processedResults, key)
                /\ delivered' = Append(delivered, key)
                /\ pendingSignals' = pendingSignals
                /\ timers' = timers
                /\ calls' = [calls EXCEPT ![c] =
                      IF pendingSignals[cl.bm] # 0
                      THEN Issue([cl1 EXCEPT !.sig = pendingSignals[cl.bm]],
                                 "vs_pending", <<cl.bm>>)
                      ELSE AskLastResults(cl1)]

\* ------------------------------------------------------------------ addRound

\* addRound resumes after findByRoundId (lines 113-126)
addRound_found(c) ==
    LET cl == calls[c] IN
    /\ Ready(c, {"ar_find"})
    /\ IF cl.res # <<>>
       THEN PostSave(c, cl.res[1])
       ELSE /\ calls' = [calls EXCEPT ![c] =
                          IF isTemporaryId(cl.rid)
                          THEN Issue(cl, "ar_similar", <<cl.bm, cl.crashX>>)
                          ELSE Issue(cl, "ar_insert", InsertArgs(cl))]
            /\ UNCHANGED <<net, heap, savedRounds, timers, engine>>
    /\ UNCHANGED <<net, now, store, faults, roundData>>

\* addRound resumes after findSimilarRound (lines 127-145)
addRound_similar(c) ==
    LET cl == calls[c] IN
    /\ Ready(c, {"ar_similar"})
    /\ IF RecentTemporary(cl.res)
       THEN PostSave(c, cl.res[1])
       ELSE /\ calls' = [calls EXCEPT ![c] = Issue(cl, "ar_insert", InsertArgs(cl))]
            /\ UNCHANGED <<net, heap, savedRounds, timers, engine>>
    /\ UNCHANGED <<net, now, store, faults, roundData>>

\* addRound returns the row of its INSERT (lines 182-183)
addRound_inserted(c) ==
    /\ Ready(c, {"ar_insert"})
    /\ PostSave(c, calls[c].res[1])
    /\ UNCHANGED <<net, now, store, faults, roundData>>

\* the INSERT of addRound overflowed a column (lines 814-842): addRound is
\* called once more with the same amounts and the multiplier limited again
addRound_overflow(c) ==
    LET cl  == calls[c]
        agg == heap[cl.rd]
    IN  /\ Failed(c, {"ar_insert"})
        /\ cl.res = <<"22003">>
        /\ ~cl.retried
        /\ calls' = [calls EXCEPT ![c] =
                        Issue([cl EXCEPT !.retried = TRUE, !.rid = agg.roundId,
                                         !.crashX = Min(cl.crashX, MAX_MULTIPLIER_VALUE),
                                         !.vals = [cl.vals EXCEPT
                                             !.bets_count = OrElse(agg.betsCount, 0),
                                             !.online_players = OrElse(agg.onlinePlayers, 0)]],
                              "ar_find", <<cl.bm, agg.roundId>>)]
        /\ UNCHANGED <<net, now, store, faults, heap, roundData, savedRounds, timers, engine>>

\* a query of addRound failed: saveRoundData catches it (lines 804-846 and
\* 903-913), logs the round to the backup and returns
addRound_throw(c) ==
    /\ Failed(c, {"ar_find", "ar_similar", "ar_insert"})
    /\ calls[c].res # <<"22003">> \/ calls[c].retried
    /\ Finish(c, calls[c], "done", "failed")
    /\ UNCHANGED <<net, now, store, faults, heap, roundData, savedRounds, engine>>

\* -------------------------------------------------------------- verifySignal

\* pendingSignals.delete(bookmakerId)
ClearPending(bm) == [pendingSignals EXCEPT ![bm] = 0]

\* verifySignal resumes after getPendingSignals (lines 169-184 and 222)
verifySignal_pending(c) ==
    LET cl  == calls[c]
        hit == SelectSeq(cl.res, LAMBDA g : g.id = cl.sig)
    IN  /\ Ready(c, {"vs_pending"})
        /\ IF hit = <<>>
           THEN /\ pendingSignals' = ClearPending(cl.bm)
                /\ calls' = [calls EXCEPT ![c] = AskLastResults(cl)]
           ELSE /\ pendingSignals' = pendingSignals
                /\ calls' = [calls EXCEPT ![c] =
                      IF hit[1].first = Null
                      THEN Issue(cl, "uf_update", <<cl.sig, cl.crashX>>)
                      ELSE Issue(cl, "us_update", <<cl.sig, cl.crashX>>)]
        /\ UNCHANGED <<net, now, store, faults, heap, roundData, savedRounds, timers, processedResults, delivered>>

\* updateFirstAttempt and updateSecondAttempt resume after their UPDATE and
\* record the attempt (lines 51 and 76 of the signal model)
updateAttempt_updated(c) ==
    LET cl == calls[c] IN
    /\ Ready(c, {"uf_update", "us_update"})
    /\ calls' = [calls EXCEPT ![c] =
                    IF cl.pc = "uf_update"
                    THEN Issue(cl, "uf_result", <<cl.sig, 1, cl.crashX, cl.prRid>>)
                    ELSE Issue(cl, "us_result", <<cl.sig, 2, cl.crashX, cl.prRid>>)]
    /\ UNCHANGED <<net, now, store, faults, heap, roundData, savedRounds, timers, engine>>

\* verifySignal resumes after updateFirstAttempt (lines 186-217): a win closes
\* the signal, a loss leaves the slot taken
verifySignal_first(c) ==
    LET cl == calls[c] IN
    /\ Ready(c, {"uf_result"})
    /\ pendingSignals' = IF cl.crashX > WinThreshold THEN ClearPending(cl.bm) ELSE pendingSignals
    /\ calls' = [calls EXCEPT ![c] = AskLastResults(cl)]
    /\ UNCHANGED <<net, now, store, faults, heap, roundData, savedRounds, timers, processedResults, delivered>>

\* verifySignal resumes after updateSecondAttempt (lines 224-240)
verifySignal_second(c) ==
    LET cl == calls[c] IN
    /\ Ready(c, {"us_result"})
    /\ pendingSignals' = ClearPending(cl.bm)
    /\ calls' = [calls EXCEPT ![c] = AskLastResults(cl)]
    /\ UNCHANGED <<net, now, store, faults, heap, roundData, savedRounds, timers, processedResults, delivered>>

\* a query of verifySignal failed: its catch clears the slot (lines 242-246)
verifySignal_throw(c) ==
    LET cl == calls[c] IN
    /\ Failed(c, {"vs_pending", "uf_update", "uf_result", "us_update", "us_result"})
    /\ pendingSignals' = ClearPending(cl.bm)
    /\ calls' = [calls EXCEPT ![c] = AskLastResults(cl)]
    /\ UNCHANGED <<net, now, store, faults, heap, roundData, savedRounds, timers, processedResults, delivered>>

\* ------------------------------------------- processNewResult and emitSignal

\* processNewResult resumes after getLastResults (lines 99-116) and
\* emitSignal runs up to createSignal (lines 128-134)
processNewResult_last(c) ==
    LET cl     == calls[c]
        unique == FirstOfEachRoundId(cl.res, {})
    IN  /\ Ready(c, {"pr_last"})
        /\ IF Len(unique) >= 3 /\ detectPattern(unique) /\ pendingSignals[cl.bm] = 0
           THEN /\ calls' = [calls EXCEPT ![c] =
                      Issue(cl, "es_create",
                            <<cl.bm, <<unique[1].mult, unique[2].mult, unique[3].mult>> >>)]
                /\ timers' = timers
           ELSE Finish(c, cl, "done", "processed")
        /\ UNCHANGED <<net, now, store, faults, heap, roundData, savedRounds, engine>>

\* emitSignal resumes after createSignal (line 137)
emitSignal_created(c) ==
    LET cl == calls[c] IN
    /\ Ready(c, {"es_create"})
    /\ pendingSignals' = [pendingSignals EXCEPT ![cl.bm] = cl.res[1].id]
    /\ Finish(c, cl, "done", "processed")
    /\ UNCHANGED <<net, now, store, faults, heap, roundData, savedRounds, processedResults, delivered>>

\* getLastResults or createSignal failed: processNewResult catches it (line 117)
processNewResult_throw(c) ==
    /\ Failed(c, {"pr_last", "es_create"})
    /\ Finish(c, calls[c], "done", "processed")
    /\ UNCHANGED <<net, now, store, faults, heap, roundData, savedRounds, engine>>

\* ------------------------------------------------------------ specifications

\* the steps of a call that persists a round under a server-issued id
RealSteps(c) ==
    \/ DbFindByRoundId(c)
    \/ DbInsertRound(c)
    \/ DbGetLastResults(c)
    \/ saveRoundData_found(c)
    \/ addRound_found(c)
    \/ addRound_inserted(c)
    \/ processNewResult_last(c)

\* the further steps of a call whose round id is synthesized
TempSteps(c) ==
    \/ DbFindSimilarRound(c)
    \/ DbUpdateRoundId(c)
    \/ saveRoundData_similar(c)
    \/ updateRoundId_found(c)
    \/ saveRoundData_merged(c)
    \/ addRound_similar(c)

\* updateRoundId when the new id has a row already, which takes two calls in
\* flight at once
ClashSteps(c) ==
    \/ DbDeleteByRoundId(c)

\* emitSignal
EmitSteps(c) ==
    \/ DbCreateSignal(c)
    \/ emitSignal_created(c)

\* verifySignal on a first attempt
VerifySteps(c) ==
    \/ DbGetPendingSignals(c)
    \/ DbUpdateFirstAttempt(c)
    \/ DbAddSignalResult(c)
    \/ verifySignal_pending(c)
    \/ updateAttempt_updated(c)
    \/ verifySignal_first(c)

\* verifySignal on a second attempt
GaleSteps(c) ==
    \/ DbUpdateSecondAttempt(c)
    \/ verifySignal_second(c)

\* a query fails, and what that does to its caller
Throws(c) ==
    \/ DbFail(c)
    \/ saveRoundData_throw(c)
    \/ addRound_throw(c)
    \/ verifySignal_throw(c)
    \/ processNewResult_throw(c)

InFlight == Cardinality({c \in Calls : calls[c].pc \notin {"idle", "done", "threw"}})

Started == Cardinality({c \in Calls : calls[c].pc # "idle"})

AllDone == Started > 0 /\ InFlight = 0

\* the state after construction with the store as an earlier run left it
InitWith(tbl, f) ==
    /\ NetInit
    /\ now = 0
    /\ rounds = tbl
    /\ signals = <<>>
    /\ results = <<>>
    /\ faults = f
    /\ heap = <<>>
    /\ roundData = [b \in Bookmakers |-> 0]
    /\ savedRounds = {}
    /\ timers = {}
    /\ processedResults = <<>>
    /\ pendingSignals = [b \in Bookmakers |-> 0]
    /\ calls = [c \in Calls |-> IdleCall]
    /\ delivered = <<>>
    /\ inbound = NoFrame

\* ---- SpecDedup: finalizes of one source under server-issued round ids, any
\* number of them in flight at once

ServerIds == {<<"srv", 1>>, <<"srv", 2>>}

NextDedup ==
    \/ initialConnection(1)
    \/ \E rid \in ServerIds :
          Started < DedupCalls /\ OnRoundChartInfo(1, rid, 1800)
    \/ \E c \in Calls : RealSteps(c)

SpecDedup == Init /\ [][NextDedup]_vars

\* ---- SpecTemp: finalizes of one source without a server round id (command
\* x), the chart information of a round, the clock and the reset timers; one
\* call in flight at a time

NextTemp ==
    \/ initialConnection(1)
    \/ InFlight = 0 /\ OnCrashX(1, NoId, 1400)
    \/ InFlight = 0 /\ OnRoundChartInfo(1, <<"srv", 1>>, 1400)
    \/ \E t \in timers : resetRoundData(t)
    \/ \E d \in {5, 30} : Tick(d)
    \/ \E c \in Calls : RealSteps(c)
    \/ \E c \in Calls : TempSteps(c)

SpecTemp == Init /\ [][NextTemp]_vars

\* ---- Spec: finalizes of one source that reach the signal engine, at most
\* MaxInFlight of them in flight at once. The store holds two rounds of the
\* source from an earlier run.

EarlierRounds ==
    <<NewRow(1, <<"srv", 1>>, 1800, 0), NewRow(1, <<"srv", 2>>, 1800, 0)>>

FreshIds == {<<"srv", 3>>, <<"srv", 4>>, <<"srv", 5>>}

Next ==
    \/ initialConnection(1)
    \/ \E rid \in FreshIds, m \in {1500, 1800} :
          /\ Started < SignalCalls
          /\ InFlight < MaxInFlight
          /\ OnRoundChartInfo(1, rid, m)
    \/ \E c \in Calls : RealSteps(c)
    \/ \E c \in Calls : EmitSteps(c)
    \/ \E c \in Calls : VerifySteps(c)
    \/ \E c \in Calls : GaleSteps(c)

Spec == InitWith(EarlierRounds, 0) /\ [][Next]_vars

\* ---- SpecFault: the same finalizes handled one at a time, with store
\* failures

NextFault ==
    \/ initialConnection(1)
    \/ \E rid \in FreshIds, m \in {1500, 1800} :
          /\ Started < SignalCalls
          /\ InFlight = 0
          /\ OnRoundChartInfo(1, rid, m)
    \/ \E c \in Calls : RealSteps(c)
    \/ \E c \in Calls : EmitSteps(c)
    \/ \E c \in Calls : VerifySteps(c)
    \/ \E c \in Calls : GaleSteps(c)
    \/ \E c \in Calls : Throws(c)

SpecFault == InitWith(EarlierRounds, MaxFaults) /\ [][NextFault]_vars

\* ---- SpecGuard: repeated deliveries to the signal engine

NextGuard ==
    \/ initialConnection(1)
    \/ \E rid \in FreshIds :
          InFlight < MaxInFlight /\ OnRoundChartInfo(1, rid, 1800)
    \/ \E c \in Calls : RealSteps(c)
    \/ \E c \in Calls : EmitSteps(c)
    \/ \E c \in Calls : VerifySteps(c)

SpecGuard == InitWith(EarlierRounds, 0) /\ [][NextGuard]_vars

\* ---- SpecValidate: finalizes of one source by command x whose crashX is
\* any JavaScript number: a usual multiplier, one beyond the column of the
\* store, 0, a negative one, NaN and Infinity. The round is one the store
\* holds from an earlier run or a new one. One call in flight at a time

\* two rounds of an earlier run that no new round completes to a pattern
StoredRounds ==
    <<NewRow(1, <<"srv", 1>>, 1200, 0), NewRow(1, <<"srv", 2>>, 1200, 0)>>

\* the calls of saveRoundData in SpecValidate
ValidateCalls == 2

Oversized == MAX_MULTIPLIER_VALUE + 100000000

CrashInputs == {1800, Oversized, 0, -1000, NaN, Infinity}

NextValidate ==
    \/ initialConnection(1)
    \/ \E rid \in {<<"srv", 1>>, <<"srv", 3>>}, m \in CrashInputs :
          /\ Started < ValidateCalls
          /\ InFlight = 0
          /\ OnCrashX(1, rid, m)
    \/ \E t \in timers : resetRoundData(t)
    \/ Tick(5)
    \/ \E c \in Calls : RealSteps(c)
    \/ \E c \in Calls : addRound_overflow(c)
    \/ \E c \in Calls : addRound_throw(c)

SpecValidate == InitWith(StoredRounds, 0) /\ [][NextValidate]_vars

\* ---- SpecColumns: the counts of a round (bets, players, cashouts) and its
\* finalize by command x, with amounts and multipliers within and beyond the
\* columns of game_rounds. One call in flight at a time

ColumnCalls == 2

\* a total above DECIMAL(15,2) and one above every column (such as 1e30)
OversizedAmount == Decimal15Limit + 500000000

BetInputs == {100000, OversizedAmount, Oversized}

WinInputs == {50000, 1200000}

NextColumns ==
    \/ initialConnection(1)
    \/ \E amount \in BetInputs : OnUpdateCurrentBets(1, 3, amount)
    \/ OnOnlinePlayers(1, 7)
    \/ \E w \in WinInputs : OnUpdateCurrentCashOuts(1, w, w)
    \/ \E m \in {1800, Oversized} :
          /\ Started < ColumnCalls
          /\ InFlight = 0
          /\ OnCrashX(1, <<"srv", 3>>, m)
    \/ \E c \in Calls : RealSteps(c)
    \/ \E c \in Calls : addRound_overflow(c)
    \/ \E c \in Calls : addRound_throw(c)

SpecColumns == InitWith(StoredRounds, 0) /\ [][NextColumns]_vars

\* ---- SpecShared: finalizes of two sources by roundChartInfo, up to
\* SharedCalls of each source: those of source 1 for one round and in flight
\* at once, those of source 2 one at a time

SharedCalls == 2

StartedOf(bm) == Cardinality({c \in Calls : calls[c].pc # "idle" /\ calls[c].bm = bm})

NextShared ==
    \/ \E bm \in Bookmakers : initialConnection(bm)
    \/ /\ StartedOf(1) < SharedCalls
       /\ OnRoundChartInfo(1, <<"srv", 3>>, 1800)
    \/ \E rid \in {<<"srv", 3>>, <<"srv", 4>>} :
          /\ StartedOf(2) < SharedCalls
          /\ \A c \in Calls : calls[c].bm = 2 => calls[c].pc \in {"done", "threw"}
          /\ OnRoundChartInfo(2, rid, 1800)
    \/ \E c \in Calls : RealSteps(c)

SpecShared == InitWith(<<>>, 0) /\ [][NextShared]_vars

\* ---- SpecDetect: a finalize over every store of up to MaxEarlier rounds

PatternValues == {1400, 1500, 1600, 1800, 1900, 2000, 2100}

TableOf(ms) == [i \in 1..Len(ms) |-> NewRow(1, <<"srv", i>>, ms[i], 0)]

EarlierTables ==
    {TableOf(ms) : ms \in UNION {[1..n -> PatternValues] : n \in 0..MaxEarlier}}

InitDetect == \E tbl \in EarlierTables : InitWith(tbl, 0)

NextDetect ==
    \/ initialConnection(1)
    \/ \E m \in PatternValues :
          /\ Started < DetectCalls
          /\ InFlight = 0
          /\ OnRoundChartInfo(1, <<"srv", 9>>, m)
    \/ \E c \in Calls : RealSteps(c)
    \/ \E c \in Calls : EmitSteps(c)

SpecDetect == InitDetect /\ [][NextDetect]_vars

\* ---- SpecNet: the connection of one source: its sockets open, fail with
\* 'error' and close, connection attempts fail, and the reconnects fire while
\* the clock advances

Sockets == 1..Len(sockets)

NextNet ==
    \/ initialConnection(1)
    \/ \E s \in Sockets : OnOpen(s)
    \/ \E s \in Sockets : OnError(s)
    \/ \E s \in Sockets : OnClose(s, FALSE)
    \/ \E s \in Sockets : OnClose(s, TRUE)
    \/ \E t \in reconnects : Len(sockets) < NetSockets /\ Reconnect(t)
    \/ Tick(5)

SpecNet == Init /\ [][NextNet]_vars

\* ---- SpecCeiling: the connection attempts of one source fail one after the
\* other, the heartbeat of a socket that is not open reports a failure as
\* well, and the reconnects fire until the retry ceiling

NextCeiling ==
    \/ initialConnection(1)
    \/ \E s \in Sockets : OnClose(s, TRUE)
    \/ \E s \in Sockets : pingInterval(s)
    \/ \E t \in reconnects : Reconnect(t)
    \/ Tick(5)

SpecCeiling == Init /\ [][NextCeiling]_vars

\* ---- SpecRound: the socket of one source receives running multipliers of a
\* round, fails or closes, the round is handed to saveRoundData where the
\* handlers do so, and the reconnects fire

NextRound ==
    \/ initialConnection(1)
    \/ \E s \in Sockets : OnOpen(s)
    \/ \E s \in Sockets : OnRunX(s, <<"srv", 1>>, 1800)
    \/ \E s \in Sockets : OnError(s)
    \/ \E s \in Sockets : OnClose(s, FALSE)
    \/ \E s \in Sockets : onClose_saved(s)
    \/ \E c \in Calls : RealSteps(c)
    \/ \E t \in reconnects : Len(sockets) < RoundSockets /\ Reconnect(t)
    \/ now < RoundHorizon /\ Tick(5)

SpecRound == Init /\ [][NextRound]_vars

\* ---- SpecOutage: the socket of one source receives frames that do not
\* decode and running multipliers of a round, and closes; the round is handed
\* to saveRoundData, a query of which may fail; the reconnects fire

OutageSockets == 2

OutageHorizon == 10

NextOutage ==
    \/ initialConnection(1)
    \/ \E s \in Sockets : OnOpen(s)
    \/ \E s \in Sockets : OnUndecodable(s)
    \/ \E s \in Sockets : OnRunX(s, <<"srv", 1>>, 1800)
    \/ \E s \in Sockets : OnClose(s, FALSE)
    \/ \E s \in Sockets : onClose_saved(s)
    \/ \E s \in Sockets : onClose_threw(s)
    \/ \E c \in Calls : RealSteps(c)
    \/ \E c \in Calls : DbFail(c)
    \/ \E c \in Calls : saveRoundData_throw(c)
    \/ \E c \in Calls : addRound_throw(c)
    \/ \E t \in reconnects : Len(sockets) < OutageSockets /\ Reconnect(t)
    \/ now < OutageHorizon /\ Tick(5)

SpecOutage == InitWith(<<>>, MaxFaults) /\ [][NextOutage]_vars

\* ---- SpecShake: the frames one source's sockets send: the socket opens,
\* receives frames that decode and frames that do not, its heartbeat ticks,
\* it fails and closes, and the reconnects fire

NextShake ==
    \/ initialConnection(1)
    \/ \E s \in Sockets : OnOpen(s)
    \/ \E s \in Sockets : OnUndecodable(s)
    \/ \E s \in Sockets : OnRunX(s, NoId, 1800)
    \/ \E s \in Sockets : OnError(s)
    \/ \E s \in Sockets : OnClose(s, FALSE)
    \/ \E s \in Sockets : OnClose(s, TRUE)
    \/ \E s \in Sockets : pingInterval(s)
    \/ \E t \in reconnects : Len(sockets) < ShakeSockets /\ Reconnect(t)
    \/ now < ShakeHorizon /\ Tick(5)

SpecShake == Init /\ [][NextShake]_vars

\* ---- SpecReset: the server starts, connection attempts fail and reconnects
\* are scheduled, the reconciliation runs, and an administrator resets the
\* connections

NextReset ==
    \/ initializeConnections
    \/ \E k \in {"init", "recon", "reset"} : DbGetBookmakers(k)
    \/ initializeConnections_read
    \/ \E s \in Sockets : OnClose(s, TRUE)
    \/ \E t \in reconnects : Reconnect(t)
    \/ reconcile
    \/ reconcile_read
    \/ resetConnections
    \/ resetConnections_slept
    \/ resetConnections_read
    \/ now < ResetHorizon /\ Tick(5)

SpecReset == Init /\ [][NextReset]_vars

\* ---- SpecRecon: the server starts, an administrator edits the row of one
\* bookmaker, the reconciliation runs, and the sockets it closes report it

NextRecon ==
    \/ initializeConnections
    \/ \E k \in {"init", "recon"} : DbGetBookmakers(k)
    \/ initializeConnections_read
    \/ \E active \in BOOLEAN, valid \in BOOLEAN : Reconfigure(1, active, valid)
    \/ reconcile
    \/ reconcile_read
    \/ \E s \in Sockets : OnClose(s, TRUE)

SpecRecon == Init /\ [][NextRecon]_vars

\* ---- SpecHealth: the server starts, the socket of the first source opens,
\* minutes pass without a message, and the health check runs

NextHealth ==
    \/ initializeConnections
    \/ \E k \in {"init", "health"} : DbGetBookmakers(k)
    \/ initializeConnections_read
    \/ \E s \in Sockets \cap {1} : OnOpen(s)
    \/ checkAllBookmakersHealth
    \/ checkAllBookmakersHealth_read
    \/ Elapse(10)

SpecHealth == Init /\ [][NextHealth]_vars

\* ---- SpecDecode: one frame of any bytes over FrameBytes, handed to
\* decodeMessage under any decoder type

\* ws.on('message'): decodeMessage(data, decoderType) (part_002 lines 282-285)
Decode ==
    /\ inbound.decodedMessage = <<"none">>
    /\ inbound' = [inbound EXCEPT
                      !.actualDecoderType = actualDecoderType(inbound.data, inbound.decoderType),
                      !.decodedMessage = decodeMessage(inbound.data, inbound.decoderType)]
    /\ UNCHANGED <<now, store, faults, heap, roundData, savedRounds, timers, engine,
                   calls, config, sockets, connections, pingIntervals, reconnects,
                   isResetting, tasks, bookmakersHealth, intervals>>

InitDecode ==
    /\ NetInit
    /\ now = 0
    /\ rounds = <<>>
    /\ signals = <<>>
    /\ results = <<>>
    /\ faults = 0
    /\ heap = <<>>
    /\ roundData = [b \in Bookmakers |-> 0]
    /\ savedRounds = {}
    /\ timers = {}
    /\ processedResults = <<>>
    /\ pendingSignals = [b \in Bookmakers |-> 0]
    /\ calls = [c \in Calls |-> IdleCall]
    /\ delivered = <<>>
    /\ \E frame \in Frames, decoderType \in DECODER_TYPES :
          inbound = Arrived(frame, decoderType)

NextDecode == Decode

SpecDecode == InitDecode /\ [][NextDecode]_vars

\* ---- SpecFinalize: the four ways a round of one source is finalized
\* (changeState End with and without a multiplier, x with crashX,
\* roundChartInfo), one call of saveRoundData at a time, the timers and a
\* clock that goes on while a timer is pending

FinalizeCalls == 2
FinalizeHorizon == 4

SaveTimers == {t \in timers : t.run = "save"}

\* another round may still be finalized
MayFinalize ==
    /\ Started + Cardinality(SaveTimers) < FinalizeCalls
    /\ InFlight = 0
    /\ now <= FinalizeHorizon

Later(d) ==
    /\ now + d <= FinalizeHorizon \/ \E t \in timers : t.due > now
    /\ now' = now + d
    /\ UNCHANGED <<net, store, faults, heap, roundData, savedRounds, timers, engine, calls>>

NextFinalize ==
    \/ initialConnection(1)
    \/ OnOnlinePlayers(1, 7)
    \/ now <= FinalizeHorizon /\ OnX(1, 1800)
    \/ \E rid \in ServerIds, m \in {0, 1800} :
          MayFinalize /\ OnChangeStateEnd(1, rid, m)
    \/ \E rid \in ServerIds : MayFinalize /\ OnCrashX(1, rid, 1800)
    \/ \E rid \in ServerIds : MayFinalize /\ OnRoundChartInfo(1, rid, 1800)
    \/ \E t \in timers : delayedSave(t)
    \/ \E t \in timers : resetRoundData(t)
    \/ Later(2)
    \/ \E c \in Calls : RealSteps(c)

SpecFinalize == InitWith(<<>>, 0) /\ [][NextFinalize]_vars

\* the event loop runs every callback that is due, the store answers every
\* query and time goes on; no message has to arrive
FairFinalize ==
    /\ SpecFinalize
    /\ \A c \in Calls : WF_vars(RealSteps(c))
    /\ WF_vars(\E t \in timers : delayedSave(t))
    /\ WF_vars(\E t \in timers : resetRoundData(t))
    /\ WF_vars(Later(2))

\* ---- SpecX: the command x alone, with crashX (with and without a round id
\* in the message) and with a live value above and below the crash values,
\* the reset timers and the clock

XCalls == 2

XCrashInputs == {1800, 0, NaN}
XLiveInputs == {1500, 2500}

NextX ==
    \/ initialConnection(1)
    \/ \E x \in XLiveInputs : OnX(1, x)
    \/ \E rid \in {NoId, <<"srv", 1>>}, m \in XCrashInputs :
          /\ Started < XCalls
          /\ InFlight = 0
          /\ OnCrashX(1, rid, m)
    \/ \E t \in timers : resetRoundData(t)
    \/ Tick(5)
    \/ \E c \in Calls : RealSteps(c)
    \/ \E c \in Calls : TempSteps(c)

SpecX == Init /\ [][NextX]_vars

\* ---- SpecChain: a chain of finalizes of one source under the round ids the
\* server issues in turn, each multiplier a win or a loss, at most MaxInFlight
\* of them in flight at once

ChainCalls == 4

NextChain ==
    \/ initialConnection(1)
    \/ \E m \in {1500, 1800} :
          /\ Started < ChainCalls
          /\ InFlight < MaxInFlight
          /\ OnRoundChartInfo(1, <<"srv", 3 + Started>>, m)
    \/ \E c \in Calls : RealSteps(c)
    \/ \E c \in Calls : EmitSteps(c)
    \/ \E c \in Calls : VerifySteps(c)
    \/ \E c \in Calls : GaleSteps(c)

SpecChain == InitWith(EarlierRounds, 0) /\ [][NextChain]_vars

\* ---- SpecCarry: two rounds of one source in turn, every message with the
\* id of its round, the second round's values below and above the first's;
\* the server goes on to the next round once a finalize has been handled
\* and the reset it scheduled, if any, has run. One call in flight at a time

CarryCalls == 2
CarryHorizon == 10

\* the round the server is in
CurrentRound == Started + 1

CurrentId == <<"srv", CurrentRound>>

\* the multipliers the server sends in a round
RoundValues(k) == IF k = 1 THEN {1800} ELSE {1200, 2500}

NextCarry ==
    \/ initialConnection(1)
    \/ /\ CurrentRound <= CarryCalls
       /\ InFlight = 0
       /\ timers = {}
       /\ \/ OnChangeStateBet(1, CurrentId)
          \/ OnChangeStateRun(1, CurrentId)
          \/ \E x \in RoundValues(CurrentRound) : OnX(1, x)
          \/ \E m \in RoundValues(CurrentRound) : OnCrashX(1, CurrentId, m)
          \/ \E m \in RoundValues(CurrentRound) : OnChangeStateEnd(1, CurrentId, m)
          \/ \E m \in RoundValues(CurrentRound) : OnRoundChartInfo(1, CurrentId, m)
    \/ \E t \in timers : resetRoundData(t)
    \/ /\ now + 2 <= CarryHorizon
       /\ Tick(2)
    \/ \E c \in Calls : RealSteps(c)

SpecCarry == Init /\ [][NextCarry]_vars

\* ---- SpecOverlap: a round of one source finalized by x with crashX or by
\* changeState End, and the first messages of the next round (changeState
\* Bet, bets, cashouts) before and after the reset the finalize scheduled

OverlapHorizon == 6

NextOverlap ==
    \/ initialConnection(1)
    \/ /\ Started = 0
       /\ \/ OnCrashX(1, <<"srv", 1>>, 1800)
          \/ OnChangeStateEnd(1, <<"srv", 1>>, 1800)
    \/ /\ Started = 1
       /\ InFlight = 0
       /\ \/ OnChangeStateBet(1, <<"srv", 2>>)
          \/ OnUpdateCurrentBets(1, 3, 30)
          \/ \E w \in {10, 20} : OnUpdateCurrentCashOuts(1, w, w)
    \/ \E t \in timers : resetRoundData(t)
    \/ /\ now + 1 <= OverlapHorizon
       /\ Tick(1)
    \/ \E c \in Calls : RealSteps(c)

SpecOverlap == Init /\ [][NextOverlap]_vars

\* ---- SpecResolve: a chain of finalizes of one source handled one at a
\* time, each multiplier a win or a loss, with store failures

ResolveCalls == 4

NextResolve ==
    \/ initialConnection(1)
    \/ \E m \in {1500, 1800} :
          /\ Started < ResolveCalls
          /\ InFlight = 0
          /\ OnRoundChartInfo(1, <<"srv", 3 + Started>>, m)
    \/ \E c \in Calls : RealSteps(c)
    \/ \E c \in Calls : EmitSteps(c)
    \/ \E c \in Calls : VerifySteps(c)
    \/ \E c \in Calls : GaleSteps(c)
    \/ \E c \in Calls : Throws(c)

SpecResolve == InitWith(EarlierRounds, MaxFaults) /\ [][NextResolve]_vars

\* the store answers every query, with a result or with an error, and every
\* call resumes on its answer; no message has to arrive
FairResolve ==
    /\ SpecResolve
    /\ \A c \in Calls :
          WF_vars(RealSteps(c) \/ EmitSteps(c) \/ VerifySteps(c) \/ GaleSteps(c)
                    \/ Throws(c))

\* ---- SpecTwice: a round of one source that creates a signal, handled
\* alone, and then the next round finalized twice, its two finalizes in
\* flight at once with any of two multipliers

TwiceCalls == 3

NextTwice ==
    \/ initialConnection(1)
    \/ /\ Started = 0
       /\ OnRoundChartInfo(1, <<"srv", 3>>, 1800)
    \/ \E m \in {1500, 1800} :
          /\ Started >= 1
          /\ Started < TwiceCalls
          /\ InFlight < Started
          /\ OnRoundChartInfo(1, <<"srv", 4>>, m)
    \/ \E c \in Calls : RealSteps(c)
    \/ \E c \in Calls : EmitSteps(c)
    \/ \E c \in Calls : VerifySteps(c)
    \/ \E c \in Calls : GaleSteps(c)

SpecTwice == InitWith(EarlierRounds, 0) /\ [][NextTwice]_vars

\* ---- SpecInvalid: the server starts and its sockets open, an administrator
\* makes the configuration of the first source invalid and valid again, the
\* reconciliation runs, the sockets it closes report it, and the reconnect
\* timers fire

InvalidHorizon == 10

NextInvalid ==
    \/ initializeConnections
    \/ \E k \in {"init", "recon"} : DbGetBookmakers(k)
    \/ initializeConnections_read
    \/ \E valid \in BOOLEAN : Reconfigure(1, TRUE, valid)
    \/ reconcile
    \/ reconcile_read
    \/ \E s \in Sockets : OnOpen(s)
    \/ \E s \in Sockets : sockets[s].events # <<>> /\ OnClose(s, TRUE)
    \/ \E s \in Sockets : sockets[s].events # <<>> /\ OnClose(s, FALSE)
    \/ \E t \in reconnects : Reconnect(t)
    \/ now < InvalidHorizon /\ Tick(5)

SpecInvalid == Init /\ [][NextInvalid]_vars

\* ---- SpecRetry: the sockets of one source open, receive their first
\* message while open and stay up for any time; they fail with 'error' and 'close' or
\* are closed by the peer, connection attempts fail, and the reconnect timers
\* fire when they are due

RetrySockets == 4

\* the time until the first pending reconnect is due, retryDelay when none
\* is pending
NextDue ==
    IF reconnects = {} THEN retryDelay
    ELSE (CHOOSE t \in reconnects : \A u \in reconnects : t.due <= u.due).due - now

NextRetry ==
    \/ initialConnection(1)
    \/ \E s \in Sockets : OnOpen(s)
    \/ \E s \in Sockets :
          /\ sockets[s].readyState = "OPEN"
          /\ ~sockets[s].firstResponseReceived
          /\ OnRunX(s, NoId, 1500)
    \/ \E s \in Sockets : OnError(s)
    \/ \E s \in Sockets : OnClose(s, FALSE)
    \/ \E s \in Sockets : OnClose(s, TRUE)
    \/ \E t \in reconnects : Len(sockets) < RetrySockets /\ Reconnect(t)
    \/ /\ NextDue > 0
       /\ Tick(NextDue)

SpecRetry == Init /\ [][NextRetry]_vars

\* ---- SpecLevels: every message that writes the multipliers of one source's
\* aggregate (changeState Bet, Run and End, x with a live value and with
\* crashX, roundChartInfo), with values that are usable, zero, negative and
\* not numeric, the calls of saveRoundData they start, the delayed save and
\* the reset. Timers run when they are due: no message is handled and the
\* clock does not go on while one is overdue; messages arrive up to the
\* horizon, and the clock goes on while a timer is pending

LevelCalls == 1
LevelHorizon == 5

LevelInputs == {1500, 2500, 0, -1000, NaN, Infinity}

\* no timer is overdue
Prompt == \A t \in timers : t.due > now

\* another round may be finalized
MayLevel ==
    /\ Started + Cardinality(SaveTimers) < LevelCalls
    /\ InFlight = 0

NextLevels ==
    \/ initialConnection(1)
    \/ /\ Prompt
       /\ now <= LevelHorizon
       /\ \/ OnChangeStateBet(1, CurrentId)
          \/ OnChangeStateRun(1, CurrentId)
          \/ \E x \in LevelInputs : OnX(1, x)
          \/ \E m \in LevelInputs : MayLevel /\ OnCrashX(1, CurrentId, m)
          \/ \E m \in LevelInputs : MayLevel /\ OnChangeStateEnd(1, CurrentId, m)
          \/ \E m \in LevelInputs : MayLevel /\ OnRoundChartInfo(1, CurrentId, m)
    \/ \E t \in timers : delayedSave(t)
    \/ \E t \in timers : resetRoundData(t)
    \/ /\ Prompt
       /\ now < LevelHorizon \/ timers # {}
       /\ Tick(1)
    \/ \E c \in Calls : RealSteps(c)

SpecLevels == Init /\ [][NextLevels]_vars

\* ------------------------------------------------------------------ claims

\* the rows of a source under a round id
RowsOf(bm, rid) == {i \in 1..Len(rounds) : rounds[i].bm = bm /\ rounds[i].rid = rid}

\* C1: no two rows share (source, round id) in any state, and when every
\* call of a run carried the same server-issued round id and all of them are
\* over, the store holds exactly one row for it.
C1_OneRowPerRound ==
    /\ \A i, j \in 1..Len(rounds) :
          (rounds[i].bm = rounds[j].bm /\ rounds[i].rid = rounds[j].rid) => i = j
    /\ \A rid \in ServerIds :
          (AllDone /\ \A c \in Calls : calls[c].pc # "idle" => calls[c].key = rid)
             => Cardinality(RowsOf(1, rid)) = 1

\* three calls for one round id are over, two of them went through addRound
C1_Witness ==
    /\ AllDone
    /\ Started = DedupCalls
    /\ \A c \in Calls : calls[c].pc # "idle" => calls[c].key = <<"srv", 1>>
    /\ Cardinality({c \in Calls : calls[c].out \in {"processed", "repeat"}}) >= 2
    /\ Cardinality(RowsOf(1, <<"srv", 1>>)) = 1

\* C2: for each source at most one signal of the store is pending.
C2_OnePending ==
    \A bm \in Bookmakers :
        Cardinality({i \in 1..Len(signals) :
                        signals[i].bm = bm /\ signals[i].status = "pending"}) <= 1

\* the attempt rows of a signal
AttemptsOf(s) == {i \in 1..Len(results) : results[i].sig = s}

AttemptsNo(s, n) == {i \in AttemptsOf(s) : results[i].attempt = n}

\* a call has written an attempt of the signal and verifySignal has not yet
\* resumed after it
Resolving(s) ==
    \E c \in Calls :
        /\ calls[c].sig = s
        /\ \/ calls[c].pc \in {"uf_result", "us_result"}
           \/ calls[c].pc \in {"uf_update", "us_update"} /\ calls[c].st = "ready"

\* C3: a signal has at most one attempt row numbered 1 and at most one
\* numbered 2, and once its second attempt is recorded the slot of its source
\* no longer holds it.
C3_TwoAttempts ==
    \A s \in 1..Len(signals) :
        /\ Cardinality(AttemptsNo(s, 1)) <= 1
        /\ Cardinality(AttemptsNo(s, 2)) <= 1
        /\ Cardinality(AttemptsOf(s)) <= 2
        /\ (AttemptsNo(s, 2) # {} /\ ~Resolving(s)) => pendingSignals[signals[s].bm] # s

\* C4: when two calls that are over carried different server-issued round
\* ids and equal multipliers, the store holds a row for each of the two ids;
\* and no call that carried a server-issued id runs the similarity search.
C4_DistinctRounds ==
    /\ \A c, d \in Calls :
          (/\ AllDone
           /\ calls[c].pc = "done" /\ calls[d].pc = "done"
           /\ calls[c].key \in ServerIds /\ calls[d].key \in ServerIds
           /\ calls[c].key # calls[d].key
           /\ calls[c].crashX = calls[d].crashX)
          => (RowsOf(1, calls[c].key) # {} /\ RowsOf(1, calls[d].key) # {})
    /\ \A c \in Calls :
          calls[c].pc \in {"sv_similar", "ar_similar"} => isTemporaryId(calls[c].key)

\* two rows of a source under synthesized ids whose multipliers differ by
\* less than 0.01 are at least 30 s apart
MergedWithin30 ==
    \A i, j \in 1..Len(rounds) :
        (/\ i < j
         /\ rounds[i].bm = rounds[j].bm
         /\ isTemporaryId(rounds[i].rid) /\ isTemporaryId(rounds[j].rid)
         /\ Abs(rounds[i].mult - rounds[j].mult) < 10)
        => rounds[j].ts - rounds[i].ts >= 30

\* a call rewrites the id of a row only when the row is less than 30 s old
MergeOnlyYoung ==
    \A c \in Calls :
        (Ready(c, {"sv_similar"}) /\ calls'[c].pc = "ur_find")
           => now - calls[c].res[1].ts < 30

\* C5: two finalizes under synthesized ids with multipliers within 0.01
\* leave one row when the existing row is less than 30 s old, and two rows
\* when it is older.
C5_TempMerge == [](MergedWithin30) /\ [][MergeOnlyYoung]_vars

\* C6: once the first attempt of a signal is recorded and its multiplier is
\* above 1.50, the signal is won without gale, has exactly one attempt row
\* (number 1, a win) and has left the slot of its source; at 1.50 or less the
\* attempt is a loss.
C6_FirstAttemptWin ==
    \A s \in 1..Len(signals) :
        LET g == signals[s] IN
        (g.first # Null /\ g.second = Null /\ ~Resolving(s)) =>
            IF g.first > 1500
            THEN /\ g.status = "won"
                 /\ ~g.gale
                 /\ Cardinality(AttemptsOf(s)) = 1
                 /\ \A i \in AttemptsOf(s) : results[i].attempt = 1 /\ results[i].win
                 /\ pendingSignals[g.bm] # s
            ELSE /\ g.status # "won"
                 /\ \A i \in AttemptsOf(s) : ~results[i].win

\* C7: after a lost first attempt the signal is pending and holds the slot
\* of its source; once the second attempt is recorded the signal is won or
\* lost by its multiplier, gale is used, it has exactly two attempt rows and
\* it has left the slot.
C7_Gale ==
    \A s \in 1..Len(signals) :
        LET g == signals[s] IN
        /\ (g.first # Null /\ g.first <= 1500 /\ g.second = Null /\ ~Resolving(s))
              => (g.status = "pending" /\ pendingSignals[g.bm] = s)
        /\ (g.second # Null /\ ~Resolving(s))
              => /\ g.status = (IF g.second > 1500 THEN "won" ELSE "lost")
                 /\ g.gale
                 /\ Cardinality(AttemptsNo(s, 1)) = 1
                 /\ Cardinality(AttemptsNo(s, 2)) = 1
                 /\ Cardinality(AttemptsOf(s)) = 2
                 /\ pendingSignals[g.bm] # s

\* the rounds of source 1 in the store, newest first
NewestFirst == Reverse(SelectSeq(rounds, LAMBDA r : r.bm = 1))

\* C8: when processNewResult resumes with the recent rounds, a signal is
\* asked for if and only if the store holds at least 3 rounds of the source
\* and, newest first, m[0] > 1.50, m[1] > 1.50 and m[2] < 2.00; the pattern
\* recorded is these three multipliers.
C8_PatternIff ==
    [][\A c \in Calls :
          (Ready(c, {"pr_last"}) /\ calls'[c] # calls[c]) =>
             LET R == NewestFirst
                 match == /\ Len(R) >= 3
                          /\ R[1].mult > 1500
                          /\ R[2].mult > 1500
                          /\ R[3].mult < 2000
             IN  /\ (calls'[c].pc = "es_create") <=> (match /\ pendingSignals[1] = 0)
                 /\ calls'[c].pc = "es_create"
                       => calls'[c].qa[2] = <<R[1].mult, R[2].mult, R[3].mult>>]_vars

\* createSignal is asked for the pattern 1.80, 1.60, 1.90
C8_Witness ==
    \E c \in Calls :
        /\ calls[c].pc = "es_create"
        /\ calls[c].qa[2] = <<1800, 1600, 1900>>
        /\ Len(rounds) = 3

\* C9, as amended: a key that processNewResult went on to process is
\* processed again only after at least ProcessedKeep (500) other keys were.
C9_GuardedRepeat ==
    \A p, q \in 1..Len(delivered) :
        (p < q /\ delivered[p] = delivered[q]) => q - p - 1 >= ProcessedKeep

\* a delivery met its key in processedResults and returned
C9_Witness ==
    \E c \in Calls :
        /\ calls[c].out = "repeat"
        /\ InSeq(<<1, calls[c].key, calls[c].crashX>>, delivered)

\* the call is in the signal engine on a key that was processed before
Repeated(c) ==
    /\ calls[c].dix # 0
    /\ \E p \in 1..(calls[c].dix - 1) : delivered[p] = delivered[calls[c].dix]

\* the call has written to the signal store
Wrote(c) ==
    /\ calls[c].st = "ready"
    /\ ~calls[c].err
    /\ calls[c].pc \in {"uf_update", "uf_result", "us_update", "us_result", "es_create"}

\* C9, as written: a repeated delivery of a key records no attempt, changes
\* no signal and creates no signal, however many deliveries lie between.
C9_NoEffect == \A c \in Calls : Repeated(c) => ~Wrote(c)

\* C10: a signal that is won or lost, and whose closing attempt has been
\* recorded in full, is never changed and gets no further attempt row.
C10_ClosedForGood ==
    [][\A s \in 1..Len(signals) :
          (signals[s].status \in {"won", "lost"} /\ ~Resolving(s))
             => /\ signals'[s] = signals[s]
                /\ AttemptsOf(s)' = AttemptsOf(s)]_vars

\* the calls of saveRoundData of a source that are suspended at an await
InFlightOf(bm) ==
    {c \in Calls : calls[c].bm = bm /\ calls[c].pc \notin {"idle", "done", "threw"}}

\* C11: at most one message handler of a source is suspended at an await of
\* its persistence and history-read calls: the next message of the source is
\* not handled before the calls the previous one started are over.
C11_OneAtATime == \A bm \in Bookmakers : Cardinality(InFlightOf(bm)) <= 1

\* the sockets of a source that are connecting or open
Live(bm) == {s \in Sockets : sockets[s].bm = bm /\ sockets[s].readyState \in {"CONNECTING", "OPEN"}}

\* C12: a source never has two sockets that are connecting or open.
C12_OneSocket == \A bm \in Bookmakers : Cardinality(Live(bm)) <= 1

\* a step in which the 'close' handlers of socket s run
CloseRan(s) == sockets[s].readyState # "CLOSED" /\ sockets'[s].readyState = "CLOSED"

\* a step in which the heartbeat of socket s ticks while the socket is not open
PingFailed(s) ==
    /\ sockets[s].nextPing # Null
    /\ sockets'[s].nextPing > sockets[s].nextPing
    /\ sockets[s].readyState # "OPEN"

\* the reconnects a step schedules for socket s
ScheduledFor(s) == {rc \in reconnects' \ reconnects : rc.by[1] = s}

Exhausted(bm) ==
    \E s \in Sockets : /\ sockets[s].bm = bm
                       /\ sockets[s].retryCount >= maxRetries
                       /\ sockets[s].readyState = "CLOSED"

\* C14: once the reconnects of a source have passed the retry ceiling, no
\* connection is opened for the source unless a full reset opens it.
C14_StaysDown ==
    [][\A bm \in Bookmakers :
          Exhausted(bm) =>
              \A s \in (Len(sockets) + 1)..Len(sockets') :
                  sockets'[s].bm # bm \/ sockets'[s].by = "reset"]_vars

\* the aggregate of source bm, or none
AggregateOf(hp, rd, bm) == IF rd[bm] = 0 THEN <<>> ELSE <<hp[rd[bm]]>>

\* C15: the step in which a reconnect timer creates the new connection of a
\* source leaves the source's RoundAggregate as it was.
C15_AggregateKept ==
    [][\A s \in (Len(sockets) + 1)..Len(sockets') :
          sockets'[s].by = "timer" =>
              AggregateOf(heap', roundData', sockets'[s].bm)
                  = AggregateOf(heap, roundData, sockets'[s].bm)]_vars

\* C16: no reconnect is scheduled by an 'error' or 'close' handler while the
\* source holds a round with a known multiplier that the handlers of the
\* socket have not handed to saveRoundData.
C16_SavedFirst ==
    \A rc \in reconnects : rc.by[2] \in {"error", "close"} => ~rc.owed

\* the places of frame f in what a socket has sent
Places(q, f) == {i \in 1..Len(q) : q[i] = f}

\* C17: a socket sends handshake-1 once, as its first frame, when it opens;
\* handshake-2 at most once, when its first decoded message arrives on the
\* open socket, and not for a frame that does not decode; every other frame
\* is the heartbeat; a heartbeat tick of a socket that is not open sends
\* nothing and reports a failure (a reconnect below the retry ceiling).
C17_Handshake ==
    /\ [](\A s \in Sockets :
            LET q == sockets[s].sent IN
            /\ (sockets[s].readyState = "OPEN" \/ q # <<>>) => Places(q, "first") = {1}
            /\ Cardinality(Places(q, "second")) <= 1
            /\ Places(q, "second") # {} => sockets[s].firstResponseReceived
            /\ \A i \in 1..Len(q) : q[i] \in {"first", "second", "third"})
    /\ [][\A s \in Sockets :
            LET k == sockets[s]
                r == k.retryCount
            IN  /\ (~k.firstResponseReceived /\ sockets'[s].firstResponseReceived
                        /\ k.readyState = "OPEN")
                    => sockets'[s].sent = Append(k.sent, "second")
                /\ (k.firstResponseReceived /\ sockets'[s].sent # k.sent)
                    => sockets'[s].sent = Append(k.sent, "third")
                /\ PingFailed(s)
                    => /\ sockets'[s].sent = k.sent
                       /\ r < maxRetries =>
                              \E rc \in ScheduledFor(s) :
                                  rc.by[2] = "ping" /\ rc.retryCount = r + 1]_vars

\* a socket has sent the three frames in order, has failed, and its heartbeat
\* has reported the failure
C17_Witness ==
    \E s \in Sockets :
        /\ sockets[s].sent = <<"first", "second", "third">>
        /\ \E rc \in reconnects : rc.by = <<s, "ping">>

\* C18: every connection created while the resetting flag is set is created
\* by the rebuild of the reset: no reconnect starts and the reconciliation
\* opens nothing in that interval.
C18_OnlyRebuild ==
    \A s \in Sockets : sockets[s].during => sockets[s].by = "reset"

\* a step in which a reconciliation pass works through the rows it read
ReconPass == tasks["recon"].pc = "ready" /\ tasks'["recon"].pc = "idle"

\* C19: after a reconciliation pass every source whose row the pass read as
\* active and valid and that had no connection has one, and every source
\* whose row is invalid or inactive (an inactive row is not among the rows
\* read) has no connection, heartbeat or aggregate entry.
C19_Reconciled ==
    [][ReconPass =>
          \A b \in Bookmakers :
              LET list == tasks["recon"].list IN
              IF InList(list, b) /\ RowOf(list, b).valid
              THEN ~has(connections, b) =>
                       /\ has(connections', b)
                       /\ connections'[b].ws \in (Len(sockets) + 1)..Len(sockets')
              ELSE /\ ~has(connections', b)
                   /\ pingIntervals'[b] = 0
                   /\ roundData'[b] = 0]_vars

\* a step in which a health check works through the rows it read
HealthPass == tasks["health"].pc = "ready" /\ tasks'["health"].pc = "idle"

\* C20: a health check classifies a connected source by the time t since its
\* last activity: healthy for t < 2 min, warning for 2 min <= t < 5 min, down
\* for t >= 5 min; a source without a connection object is disconnected.
C20_Classes ==
    [][HealthPass =>
          \A b \in Bookmakers :
              LET conn == connections[b]
                  t    == tasks["health"].at - conn.lastPing
                  st   == bookmakersHealth'[b].status
              IN  InList(tasks["health"].list, b) =>
                      IF ~has(connections, b) \/ conn.ws = 0 THEN st = "disconnected"
                      ELSE conn.status = "CONNECTED" =>
                               /\ t < alertThreshold => st = "healthy"
                               /\ (alertThreshold <= t /\ t < downThreshold) => st = "warning"
                               /\ t >= downThreshold => st = "down"]_vars

\* C21: at a health check that classifies a source down for the third time
\* in a row, the source's socket is closed and a new connection with retry
\* count 0 takes its place.
C21_ForcedReconnect ==
    [][HealthPass =>
          \A b \in Bookmakers :
              (InList(tasks["health"].list, b) /\ bookmakersHealth'[b].downs >= DownChecks) =>
                  LET old == connections[b].ws
                      new == connections'[b].ws
                  IN  /\ sockets'[old].readyState \in {"CLOSING", "CLOSED"}
                      /\ new \in (Len(sockets) + 1)..Len(sockets')
                      /\ sockets'[new].bm = b
                      /\ sockets'[new].by = "health"
                      /\ sockets'[new].retryCount = 0
                      /\ sockets'[new].readyState = "CONNECTING"]_vars

\* a source was down at three checks in a row and has the connection that
\* the third check opened
C21_Witness ==
    \E b \in Bookmakers :
        /\ bookmakersHealth[b].downs = DownChecks
        /\ has(connections, b)
        /\ sockets[connections[b].ws].by = "health"
\* C22: a call of saveRoundData whose multiplier is NaN, not finite or not
\* above 0 is rejected: no step of the call writes or changes a row, marks
\* the round as seen, or hands a result to the signal engine (which the
\* newRound event precedes).
Unusable(v) == v = NaN \/ ~isFinite(v) \/ v <= 0

\* the multiplier the x handler called saveRoundData with, which it has put
\* in the aggregate of the call
ArgOf(c) ==
    IF calls[c].pc = "idle"
    THEN heap'[roundData[calls'[c].bm]].maxMultiplier
    ELSE heap[calls[c].rd].maxMultiplier

C22_Rejected ==
    [][\A c \in Calls :
          (/\ calls'[c] # calls[c]
           /\ calls[c].pc \notin {"done", "threw"}
           /\ calls'[c].via = "x"
           /\ Unusable(ArgOf(c))) =>
                UNCHANGED <<store, savedRounds, engine>>]_vars

\* C23: every value addRound is handed for max_multiplier, total_bet_amount,
\* total_cashout, casino_profit and loss_percentage lies within the limit of
\* its column, so that the store writes it.
C23_WithinColumns ==
    \A c \in Calls :
        (calls[c].pc = "ar_insert" /\ calls[c].st = "wait") =>
            InRange(calls[c].qa[3], calls[c].qa[4])

\* C24: when the store holds a row for the source and round id of a call of
\* saveRoundData that passed the validation, the call changes no row, ends
\* with the key marked as seen, and hands nothing to the signal engine (which
\* the newRound event precedes).
HoldsRow(bm, rid) == findByRoundId(rounds, bm, rid) # <<>>

\* the call c is about to start for a stored round, waits for the lookup of
\* a stored round, or has the row the lookup returned
OnStoredRound(c) ==
    \/ /\ calls[c].pc = "idle"
       /\ calls'[c].pc # "idle"
       /\ calls'[c].key # NoId
       /\ HoldsRow(calls'[c].bm, calls'[c].key)
    \/ /\ calls[c].pc = "sv_find"
       /\ calls[c].st = "wait"
       /\ HoldsRow(calls[c].bm, calls[c].key)
    \/ /\ calls[c].pc = "sv_find"
       /\ calls[c].st = "ready"
       /\ calls[c].res # <<>>

CountsOf(r) ==
    <<r.bets_count, r.total_bet_amount, r.total_cashout, r.online_players>>

SnapshotOf(c) ==
    IF calls[c].pc = "idle" THEN heap'[roundData[calls'[c].bm]] ELSE heap[calls[c].rd]

C25_CountsUpdated ==
    [][\A c \in Calls :
          (/\ calls'[c] # calls[c]
           /\ OnStoredRound(c)
           /\ ~isTemporaryId(calls'[c].key)
           /\ calls'[c].pc = "done") =>
                CountsOf(findByRoundId(rounds', calls'[c].bm, calls'[c].key)[1])
                    = CountsOf(SafeValues(SnapshotOf(c)))]_vars

\* C26: no decode failure and no store error ends the processing of a source:
\* a source that has been connected has a socket that is connecting, open or
\* closing, or a close handler at work, or a reconnect scheduled, unless its
\* retries are used up or the socket cap of the specification is reached; and
\* no step of source 1 changes the connection, the aggregate or the pending
\* signal of source 2.
Served(bm) ==
    \/ \E s \in Sockets :
          /\ sockets[s].bm = bm
          /\ \/ sockets[s].readyState # "CLOSED"
             \/ sockets[s].awaiting # 0
    \/ \E rc \in reconnects : rc.bm = bm

C26_KeepsGoing ==
    /\ [](has(connections, 1) =>
            Served(1) \/ Exhausted(1) \/ Len(sockets) >= OutageSockets)
    /\ [][/\ connections'[2] = connections[2]
          /\ roundData'[2] = roundData[2]
          /\ pendingSignals'[2] = pendingSignals[2]]_vars

\* C27: a step of a call of saveRoundData of one source leaves the connection,
\* the aggregate and the pending signal of every other source unchanged; and
\* what the idempotency guard answers to a source depends on the deliveries
\* of that source only: a key is processed again only after at least
\* ProcessedKeep other keys of the same source were.
OwnBetween(p, q) ==
    {i \in (p + 1)..(q - 1) : delivered[i][1] = delivered[p][1]}

C27_Independent ==
    /\ [][\A c \in Calls, bm \in Bookmakers :
            (calls'[c] # calls[c] /\ calls'[c].bm # bm) =>
                /\ connections'[bm] = connections[bm]
                /\ AggregateOf(heap', roundData', bm) = AggregateOf(heap, roundData, bm)
                /\ pendingSignals'[bm] = pendingSignals[bm]]_vars
    /\ [](\A p, q \in 1..Len(delivered) :
            (p < q /\ delivered[p] = delivered[q]) =>
                Cardinality(OwnBetween(p, q)) >= ProcessedKeep)

\* the decoder the mode selects, and the other one, on the frame that came in
SelectedDecoder ==
    IF inbound.decoderType = "sfs" THEN sfsDecodeMessage(inbound.data)
    ELSE decodeMessagePackMessage(inbound.data)

OtherDecoder ==
    IF inbound.decoderType = "sfs" THEN decodeMessagePackMessage(inbound.data)
    ELSE sfsDecodeMessage(inbound.data)

Decoded == inbound.decodedMessage # <<"none">>

\* C28: in an explicit decoder mode, when the selected decoder fails on a
\* frame, by returning nothing or by raising an exception, the dispatcher
\* returns the other decoder's envelope if that one succeeds on the frame,
\* and undecodable only if both fail
C28_FallsBack ==
    (/\ Decoded
     /\ inbound.decoderType \in {"sfs", "msgpack"}
     /\ ~IsEnvelope(SelectedDecoder)) =>
          inbound.decodedMessage = IF IsEnvelope(OtherDecoder)
                                   THEN OtherDecoder
                                   ELSE Undecodable

\* the frames C29 is about: first byte 0x80, second byte 0x00 or 0x01
Canonical(frame) ==
    Len(frame) >= 2 /\ frame[1] = 128 /\ frame[2] \in {0, 1}

\* C29: for every frame whose first byte is 0x80 and whose second byte is
\* 0x00 or 0x01, whatever follows, auto detection selects Format A (sfs)
C29_CanonicalIsSfs ==
    (/\ Decoded
     /\ inbound.decoderType = "auto"
     /\ Canonical(inbound.data)) =>
          inbound.actualDecoderType = "sfs"

C29_Witness ==
    /\ Decoded
    /\ inbound.decoderType = "auto"
    /\ Canonical(inbound.data)
    /\ Len(inbound.data) = MaxFrameLen
    /\ inbound.data[2] = 1
    /\ isMessagePackMessage(inbound.data)
    /\ inbound.actualDecoderType = "sfs"

\* saveRoundData, called by a finalize with a usable snapshot, returned
\* after the round was handed on
Handed(c) ==
    /\ calls[c].pc = "done"
    /\ calls[c].crashX > 0
    /\ calls[c].out \in {"merged", "repeat", "processed"}

\* the aggregate of the source is as resetRoundData leaves it
Cleared(bm) ==
    /\ roundData[bm] # 0
    /\ [heap[roundData[bm]] EXCEPT !.onlinePlayers = 0] = NewAggregate

\* C30: after every finalize that handed a usable snapshot on successfully,
\* whichever message or timer caused it, the aggregate of the source is
\* eventually reset: round id, counts, multipliers and cashout records cleared
\* (a finished call keeps its record, so Handed(c) stays true once it is: the
\* reset is a state at or after the hand-over in which the aggregate is clear)
C30_ResetFollows ==
    \A c \in Calls :
        <>(Handed(c) /\ calls[c].bm = 1) => <>(Handed(c) /\ Cleared(1))

\* the x handler calls saveRoundData in this step: call c starts
StartsX(c) ==
    calls[c].pc = "idle" /\ calls'[c].pc # "idle" /\ calls'[c].via = "x"

\* a live x has been handled in this step: the aggregate of the source shows
\* a new current multiplier in lifecycle Run
LiveX(bm) ==
    /\ roundData[bm] # 0
    /\ roundData'[bm] = roundData[bm]
    /\ heap'[roundData[bm]].gameState = "Run"
    /\ heap'[roundData[bm]] # heap[roundData[bm]]

\* the numbers the crash values of the messages stand for
XCrashValues == {OrElse(m, 0) : m \in XCrashInputs}

\* C31: an x message with crashX sets maxMultiplier and currentMultiplier to
\* the crash value (whatever the highest live value was), sets the lifecycle
\* to End, keeps the known round id or synthesizes one, and calls
\* saveRoundData, which takes that round id and crash value when the value
\* is usable; an x message with a live value only starts no call of
\* saveRoundData, schedules nothing and writes nothing to the store
C31_CrashAndLive ==
    [][/\ \A c \in Calls :
            StartsX(c) =>
                LET o == roundData[calls'[c].bm]
                    a == heap'[o]
                IN  /\ a.maxMultiplier \in XCrashValues
                    /\ a.currentMultiplier = a.maxMultiplier
                    /\ a.gameState = "End"
                    /\ a.roundId # NoId
                    /\ heap[o].roundId # NoId => a.roundId = heap[o].roundId
                    /\ a.maxMultiplier > 0 =>
                          /\ calls'[c].key = a.roundId
                          /\ calls'[c].crashX = a.maxMultiplier
       /\ LiveX(1) => UNCHANGED <<store, calls, timers, savedRounds, engine>>]_vars

\* a crash value below the highest live value has been taken, with a round id
\* synthesized by the handler, and the round is stored under both; and a
\* live value has been handled since
C31_Witness ==
    /\ \E i \in 1..Len(rounds) :
          /\ rounds[i].mult = 1800
          /\ isTemporaryId(rounds[i].rid)
    /\ roundData[1] # 0
    /\ heap[roundData[1]].gameState = "Run"
    /\ heap[roundData[1]].maxMultiplier = 2500

\* the store answers the createSignal of call c in this step: the signal of
\* the round the call persisted comes to be
Creates(c) ==
    /\ calls[c].pc = "es_create"
    /\ calls[c].st = "wait"
    /\ calls'[c].st = "ready"
    /\ Len(signals') = Len(signals) + 1

\* the rows of signal_results that call c can have written as its attempt n
AttemptOf(c, n) ==
    {i \in 1..Len(results) :
        /\ results[i].attempt = n
        /\ results[i].sig = calls[c].sig
        /\ results[i].mult = calls[c].crashX
        /\ results[i].rid = calls[c].prRid}

\* call c resolved a signal with its round and recorded a lost first attempt
FirstAttemptLoss(c) ==
    /\ calls[c].sig # 0
    /\ calls[c].crashX <= WinThreshold
    /\ AttemptOf(c, 1) # {}
    /\ AttemptOf(c, 2) = {}

\* C32: the pending signal of a source is resolved with a newly persisted
\* round before the pattern is evaluated on it, so a round recorded as a lost
\* first attempt never creates a signal
C32_LossNeverCreates ==
    [][\A c \in Calls : Creates(c) => ~FirstAttemptLoss(c)]_vars

\* C33: the multiplier stored for a round is one the server sent in that
\* round, never one the aggregate kept from the round before
C33_NotCarriedOver ==
    \A i \in 1..Len(rounds) :
        \A k \in 1..CarryCalls :
            rounds[i].rid = <<"srv", k>> => rounds[i].mult \in RoundValues(k)

\* the reset a finalize scheduled runs in this step
Resets(t) ==
    /\ t \in timers
    /\ t.run = "reset"
    /\ t \notin timers'
    /\ roundData'[t.bm] # roundData[t.bm]

\* C34: the reset a finalize scheduled discards the state of the finalized
\* round only: when the aggregate has meanwhile taken the round id of the
\* next round, the reset leaves that round id and the bets and cashouts
\* collected under it in place
C34_KeepsNextRound ==
    [][\A t \in timers :
          Resets(t) =>
              LET a == heap[roundData[t.bm]]
                  b == heap'[roundData'[t.bm]]
              IN  (a.roundId # NoId /\ a.roundId # calls[t.id].key) =>
                      /\ b.roundId = a.roundId
                      /\ b.betsCount = a.betsCount
                      /\ b.totalBetAmount = a.totalBetAmount
                      /\ b.totalCashout = a.totalCashout
                      /\ b.cashoutRecords = a.cashoutRecords]_vars

\* the first signal of the run is in the store
FirstSignalCreated == Len(signals) >= 1

\* the first signal of the run has reached won or lost
FirstSignalResolved == Len(signals) >= 1 /\ signals[1].status \in {"won", "lost"}

\* the rounds that have to follow a signal for it to be resolved when one
\* store operation may fail: the failed attempt and the two attempts
RoundsToResolve == 2 + MaxFaults

\* C35: a signal that has been created reaches won or lost once its source
\* has persisted enough further rounds, also when a store operation failed
\* during one of its resolution attempts: it does not stay pending
C35_EventuallyResolved ==
    \A n \in 0..(Len(EarlierRounds) + ResolveCalls) :
        []((FirstSignalCreated /\ Len(rounds) = n) =>
              [](Len(rounds) >= n + RoundsToResolve => <>FirstSignalResolved))

\* C36: the attempts recorded for a signal refer to different rounds: no two
\* rows of signal_results of one signal carry the same round id, also when a
\* round is finalized more than once with different multipliers
C36_DistinctAttemptRounds ==
    \A i, j \in 1..Len(results) :
        (i # j /\ results[i].sig = results[j].sig) => results[i].rid # results[j].rid

\* the 'close' of socket s, which the program closed, is handled in this step
ClosedByProgram(s) ==
    /\ sockets[s].events # <<>>
    /\ sockets[s].readyState # "CLOSED"
    /\ sockets'[s].readyState = "CLOSED"

\* C37: once the reconciliation has closed the connection of a source whose
\* configuration is invalid and removed its entry, the close event of that
\* socket schedules no reconnect and does not put a connection entry of the
\* source back while the configuration is invalid
C37_StaysClosed ==
    [][\A s \in Sockets :
          (/\ ClosedByProgram(s)
           /\ ~has(connections, sockets[s].bm)
           /\ ~config[sockets[s].bm].valid)
          => /\ reconnects' = reconnects
             /\ ~has(connections', sockets[s].bm)]_vars

\* the sockets a step creates from a reconnect timer
Reconnected == {s \in (Len(sockets) + 1)..Len(sockets') : sockets'[s].by = "timer"}

\* the timers a step takes from the pending reconnects
Fired == reconnects \ reconnects'

\* C38: the retry count never decreases along a chain of automatic
\* reconnects: the socket a reconnect creates has the retry count of the
\* socket whose failure scheduled it plus one, whether that socket had opened
\* and received messages or not; and once a connection made with the third
\* reconnect has failed, no automatic reconnect is scheduled for the source
\* any more
C38_RetryKept ==
    [][/\ \A s \in Reconnected :
              \E t \in Fired :
                  /\ t.by[1] \in Sockets
                  /\ sockets'[s].retryCount = sockets[t.by[1]].retryCount + 1
       /\ \A bm \in Bookmakers :
              Exhausted(bm) =>
                  \A rc \in reconnects' \ reconnects : rc.bm # bm]_vars


\* C39: at most one reconciliation timer, one health-check timer and one
\* timer clearing savedRounds are active at any time, after any number of
\* resets of the connections
C39_OneTimerEach == \A k \in IntervalKinds : intervals[k] <= 1


\* C40: in every reachable state the aggregate of a source has
\* currentMultiplier <= maxMultiplier, after any sequence of changeState, x
\* (live or crashX), roundChartInfo, finalize and reset
C40_CurrentBelowMax ==
    \A bm \in Bookmakers :
        roundData[bm] # 0 =>
            heap[roundData[bm]].currentMultiplier <= heap[roundData[bm]].maxMultiplier

====
